---- MODULE Spec2Model ----
(***************************************************************************)
(* The multi-provider inference client of src/src/llms/__init__.py:        *)
(* the retry controllers get_next_message_<provider>, the fan-out          *)
(* get_next_messages with its provider translations, and the single        *)
(* attempt get_next_message that the OpenRouter wrapper delegates to.      *)
(*                                                                         *)
(* A conversation is a sequence of messages; a message is                  *)
(*   [role, isStr, parts]  (isStr: the content is a plain string),         *)
(* a part is [type, cache_control] (cache_control: the key is present).    *)
(* Text and image payloads are not inspected by the code modelled here     *)
(* and are left out; the image reshaping is the change of "type".          *)
(***************************************************************************)
EXTENDS Integers, Sequences, FiniteSets, TLC

VARIABLES
    NO_WIFI,      \* int(os.environ NO_WIFI) == 1
    STREAM_LLM,   \* os.environ STREAM_LLM == "1"
    provider,     \* how the remote provider behaves in this run
    messages0,    \* the conversation as the caller built it
    messages,     \* the caller's conversation objects, as they are now
    model,        \* the model of the get_next_messages call
    n_times,      \* its n_times
    pc,           \* where the get_next_messages call is
    client,       \* the provider client the call constructed
    sent,         \* what the call hands to the adapters
    tasks,        \* the attempts: one retry controller call each
    finished,     \* the attempts that have ended, in the order they ended
                  \* (kept in SpecOrder only)
    ret,          \* what get_next_messages returned
    raw,          \* the usage of a provider response, as the provider sent it
    usage,        \* the ModelUsage an adapter built from it
    attempt_counter, \* attempt_counter["count"] of each get_next_messages call
    attempts,     \* the get_message_with_retry calls of those calls
    stream_outputs,  \* the files of stream_outputs/: how often each was opened
                     \* (SpecIds), what each holds (SpecTranscript)
    stream_call,  \* one streamed adapter call: its chunks and accumulators
    parsed        \* one call of a response parser: its text and its result

\* the variables of the specifications that run no fan-out call
side_vars == <<raw, usage, attempt_counter, attempts, stream_outputs,
               stream_call, parsed>>

\* the variables of a fan-out call
fanout_vars == <<NO_WIFI, STREAM_LLM, provider, messages0, messages, model,
                 n_times, pc, client, sent, tasks, finished,
                 ret>>

vars == <<fanout_vars, side_vars>>

\* ModelUsage(cache_creation_input_tokens=..., cache_read_input_tokens=...,
\* input_tokens=..., output_tokens=...)
ModelUsage(cc, cr, i, o) ==
    [tag |-> "usage", cache_creation_input_tokens |-> cc,
     cache_read_input_tokens |-> cr, input_tokens |-> i, output_tokens |-> o]
\* usage = None
NoUsage == [ModelUsage(0, 0, 0, 0) EXCEPT !.tag = "None"]
\* building the usage raised (AttributeError, TypeError) inside the try
UsageRaised == [ModelUsage(0, 0, 0, 0) EXCEPT !.tag = "raise"]

\* no adapter, wrapper or stream of the side specifications is running
SideIdle ==
    /\ raw = <<>>
    /\ usage = NoUsage
    /\ attempt_counter = <<>>
    /\ attempts = <<>>
    /\ stream_outputs = <<>>
    /\ stream_call = <<>>
    /\ parsed = <<>>

\* ------------------------------------------------------------------ bounds
\* n_times is drawn from 0..MaxN.
MaxN == 2
\* In Spec the provider makes the attempts of a call retry at most MaxFail
\* times in all.
MaxFail == 5
\* SpecTranslate: the parts of a conversation after its system message.
MaxParts == 5
\* SpecIds, SpecStream: the streams that fail and are retried, in all.
MaxStreamRetries == 1
\* SpecStream: the chunks of a stream.
MaxChunks == 3
\* SpecTranscript: the chunks an attempt reads from one stream.
MaxDeltas == 2
\* SpecParse: the pieces a response text is made of.
MaxPieces == 4
\* SpecGrids: the items of a text, and the rows of a grid written in it.
MaxItems == 3
MaxRows == 2

\* ------------------------------------------------------- program constants
anthropic_max_retries == 200
deepseek_max_retries == 50
openai_max_retries == 3
xai_max_retries == 0
gemini_max_retries == 200
openrouter_max_retries == 5
MAX_CONTEXT_LENGTH == 65536
deepseek_max_tokens == 8192
baseten_max_tokens == 30000
legacy_max_retries == 12
retry_secs == 15

Min(a, b) == IF a <= b THEN a ELSE b
Max(a, b) == IF a >= b THEN a ELSE b

\* ------------------------------------------------------------------ models
AnthropicModels == {"claude_3_5_sonnet", "claude_3_5_haiku"}
OpenAIModels == {"gpt_4o", "o1_mini"}
OpenAITextOnlyModels == {"o1_mini"}
DeepSeekModels == {"deep_seek_r1", "baseten_deepseek_r1"}
XaiModels == {"grok_3"}
GeminiModels == {"gemini_1_5_pro"}
OpenRouterModels ==
    {"openrouter_claude_3_5_sonnet", "openrouter_model", "openrouter_o1"}
OpenRouterTextOnlyModels == {"openrouter_model", "openrouter_o1"}
\* a model of the enum that get_next_messages has no branch for
UnsupportedModels == {"nvidia_llama_3_1_nemotron_70b_instruct"}

Models ==
    AnthropicModels \cup OpenAIModels \cup DeepSeekModels \cup XaiModels
    \cup GeminiModels \cup OpenRouterModels \cup UnsupportedModels

\* ------------------------------------------------------------ conversation
Part(t, c) == [type |-> t, cache_control |-> c]
TextPart == Part("text", FALSE)
Msg(r, parts) == [role |-> r, isStr |-> FALSE, parts |-> parts]
StrMsg(r) == [role |-> r, isStr |-> TRUE, parts |-> <<>>]

RECURSIVE SeqsUpTo(_, _)
\* the non-empty sequences over S of length at most k
SeqsUpTo(S, k) ==
    IF k = 0 THEN {}
    ELSE LET shorter == SeqsUpTo(S, k - 1)
         IN  {<<x>> : x \in S} \cup shorter
             \cup {Append(s, x) : s \in shorter, x \in S}

SubSeqFrom(s, a) == [i \in 1..(Len(s) - a + 1) |-> s[a + i - 1]]

\* text_only_messages: a message is kept when its content is a string or
\* holds a text part; what is kept is a new message with string content.
RECURSIVE text_only_messages(_)
text_only_messages(msgs) ==
    IF msgs = <<>> THEN <<>>
    ELSE LET m == Head(msgs)
             keep == m.isStr \/ \E i \in 1..Len(m.parts) : m.parts[i].type = "text"
         IN  (IF keep THEN <<StrMsg(m.role)>> ELSE <<>>)
             \o text_only_messages(Tail(msgs))

\* ------------------------------------- get_next_messages: the translations
\* a part that asks for a cache hint keeps it only while fewer than
\* cache_control_limit hinted parts have been seen (cache_control_count >= 3)
cache_control_limit == 3

RECURSIVE anthropic_parts_off_by_one(_, _)
\* anthropic_parts with the test cache_control_count > 3
anthropic_parts_off_by_one(parts, count) ==
    IF parts = <<>> THEN [parts |-> <<>>, count |-> count]
    ELSE LET p == Head(parts)
             c == IF p.cache_control THEN count + 1 ELSE count
             q == Part(IF p.type = "image_url" THEN "image" ELSE p.type,
                       p.cache_control /\ ~(c > cache_control_limit))
             rest == anthropic_parts_off_by_one(Tail(parts), c)
         IN  [parts |-> <<q>> \o rest.parts, count |-> rest.count]

RECURSIVE anthropic_parts(_, _)
\* the inner loop over one message's parts, given cache_control_count so far:
\* an image_url part becomes an image part, a hint past the limit is deleted
anthropic_parts(parts, count) ==
    IF parts = <<>> THEN [parts |-> <<>>, count |-> count]
    ELSE LET p == Head(parts)
             c == IF p.cache_control THEN count + 1 ELSE count
             q == Part(IF p.type = "image_url" THEN "image" ELSE p.type,
                       p.cache_control /\ ~(c >= cache_control_limit))
             rest == anthropic_parts(Tail(parts), c)
         IN  [parts |-> <<q>> \o rest.parts, count |-> rest.count]

RECURSIVE anthropic_loop(_, _)
\* the loop over the messages; a message with string content is passed over
anthropic_loop(msgs, count) ==
    IF msgs = <<>> THEN <<>>
    ELSE LET m == Head(msgs)
             r == anthropic_parts(m.parts, count)
         IN  IF m.isStr
             THEN <<m>> \o anthropic_loop(Tail(msgs), count)
             ELSE <<[m EXCEPT !.parts = r.parts]>>
                  \o anthropic_loop(Tail(msgs), r.count)

\* anthropic_last_hint with the hint carried by a text part appended to the
\* last message
anthropic_last_hint_appended(msgs) ==
    LET n == Len(msgs)
        last == IF msgs[n].isStr THEN Msg(msgs[n].role, <<TextPart>>) ELSE msgs[n]
    IN  [msgs EXCEPT ![n] = [last EXCEPT !.parts = Append(@, Part("text", TRUE))]]

\* the last message: string content becomes one text part, and the last part
\* of the last message gets a cache hint
anthropic_last_hint(msgs) ==
    LET n == Len(msgs)
        last == IF msgs[n].isStr THEN Msg(msgs[n].role, <<TextPart>>) ELSE msgs[n]
        k == Len(last.parts)
    IN  [msgs EXCEPT ![n] = [last EXCEPT !.parts[k].cache_control = TRUE]]

\* the Anthropic translation of the messages that follow the system message
anthropic_translate(msgs) == anthropic_last_hint(anthropic_loop(msgs, 0))

\* messages[-1]["content"][-1] exists
HasLastPart(msgs) ==
    /\ msgs # <<>>
    /\ msgs[Len(msgs)].isStr \/ msgs[Len(msgs)].parts # <<>>

\* the OpenAI translation: a leading system role is renamed in place
openai_rename(msgs) ==
    IF msgs[1].role = "system" THEN [msgs EXCEPT ![1].role = "developer"] ELSE msgs

RECURSIVE gemini_contents(_)
\* the Gemini contents: assistant is "model", parts are rebuilt without hints
gemini_contents(msgs) ==
    IF msgs = <<>> THEN <<>>
    ELSE LET m == Head(msgs)
             role == IF m.role = "assistant" THEN "model" ELSE m.role
             parts == IF m.isStr THEN <<TextPart>>
                      ELSE [i \in 1..Len(m.parts) |->
                              Part(IF m.parts[i].type = "image_url" THEN "image"
                                   ELSE m.parts[i].type, FALSE)]
         IN  <<Msg(role, parts)>> \o gemini_contents(Tail(msgs))

\* what the synchronous head of a branch leaves behind:
\*   raised - it raised before any attempt was issued
\*   caller - the caller's conversation objects afterwards
\*   sent   - the system content and the messages handed to the adapters
\*   client - the client it constructed
Prepared(caller, system, out, cl) ==
    [raised |-> FALSE, caller |-> caller,
     sent |-> [system |-> system, messages |-> out], client |-> cl]
SetupRaised(caller, cl) ==
    [raised |-> TRUE, caller |-> caller,
     sent |-> [system |-> <<>>, messages |-> <<>>], client |-> cl]

\* lines 493-527
anthropic_setup(m, conv) ==
    LET ms == IF m = "claude_3_5_haiku" THEN text_only_messages(conv) ELSE conv
        hasSys == ms # <<>> /\ ms[1].role = "system"
        rest == IF hasSys THEN Tail(ms) ELSE ms
        out == anthropic_translate(rest)
    IN  IF ms = <<>> \/ ~HasLastPart(rest) THEN SetupRaised(conv, "anthropic")
        ELSE Prepared(IF m = "claude_3_5_haiku" THEN conv
                      ELSE IF hasSys THEN <<conv[1]>> \o out ELSE out,
                      IF hasSys THEN <<ms[1]>> ELSE <<>>, out, "anthropic")

\* lines 562-570
openai_setup(m, conv) ==
    LET renamed == openai_rename(conv)
    IN  Prepared(renamed, <<>>,
                 IF m \in OpenAITextOnlyModels THEN text_only_messages(renamed)
                 ELSE renamed, "openai")

\* lines 594-609
deepseek_setup(m, conv) ==
    Prepared(conv, <<>>, text_only_messages(conv), "deepseek")

\* lines 650-653
xai_setup(m, conv) == Prepared(conv, <<>>, conv, "xai")

\* lines 682-723: system_messages[0]["text"] needs a leading system message
\* whose content is a list starting with a text part
gemini_setup(m, conv) ==
    LET hasSys == conv[1].role = "system"
        sys == conv[1]
    IN  IF hasSys /\ ~sys.isStr /\ sys.parts # <<>> /\ sys.parts[1].type = "text"
        THEN Prepared(conv, <<sys>>, gemini_contents(Tail(conv)), "gemini_cache")
        ELSE SetupRaised(conv, "none")

\* lines 738-743
openrouter_setup(m, conv) ==
    Prepared(conv, <<>>,
             IF m \in OpenRouterTextOnlyModels THEN text_only_messages(conv)
             ELSE conv, "openrouter")

\* the dispatch of get_next_messages on the model
Setup(m, conv) ==
    IF m \in AnthropicModels THEN anthropic_setup(m, conv)
    ELSE IF m \in OpenAIModels THEN openai_setup(m, conv)
    ELSE IF m \in DeepSeekModels THEN deepseek_setup(m, conv)
    ELSE IF m \in XaiModels THEN xai_setup(m, conv)
    ELSE IF m \in GeminiModels THEN gemini_setup(m, conv)
    ELSE IF m \in OpenRouterModels THEN openrouter_setup(m, conv)
    ELSE SetupRaised(conv, "none")

\* ------------------------------------------------------------ the provider
\* What the provider answers to one call: a response ("ok"; for the
\* OpenRouter endpoint also a response without choices, or a stream without
\* content) or an error. A context-length error reports the prompt tokens.
ErrorKinds ==
    {"rate_limit", "auth", "auth_x_api_key", "context_length",
     "tokens_unparseable", "upstream", "other"}
PromptTokenCases == {50000, 60000, 65536, 70000}
Outcome(k, p) == [kind |-> k, prompt_tokens |-> p]

\* The substrings the code looks for, as they occur in str(e). An
\* authentication failure of the Anthropic API reads "invalid x-api-key";
\* the two ValueErrors are those of get_next_message (lines 960 and 1017),
\* both of which end "Check API key, rate limits, or model availability."
ErrText(k) ==
    CASE k = "rate_limit" -> {"429", "rate"}
      [] k = "auth" -> {"401"}
      [] k = "auth_x_api_key" -> {"401", "invalid x-api-key"}
      [] k = "context_length" -> {"tokens ("}
      [] k = "tokens_unparseable" -> {"tokens ("}
      [] k = "upstream" -> {"502", "upstream"}
      [] k = "no_choices" -> {"no choices", "rate"}
      [] k = "no_content" -> {"no content", "rate"}
      [] OTHER -> {}

\* how an authentication failure is worded for a controller's provider (what
\* the Gemini API says is not in the source: both wordings are possible)
AuthKinds(ctl) ==
    IF ctl = "anthropic" THEN {"auth_x_api_key"}
    ELSE IF ctl = "gemini" THEN {"auth", "auth_x_api_key"}
    ELSE {"auth"}

\* --------------------------------------------------------------- attempts
Controllers == {"anthropic", "deepseek", "openai", "xai", "gemini", "openrouter"}

Pending == [tag |-> "pending", attempt |-> 0]
NoneResult == [tag |-> "None", attempt |-> 0]
Raised == [tag |-> "raise", attempt |-> 0]
\* the (text, usage) pair of attempt i
Pair(i) == [tag |-> "pair", attempt |-> i]
\* the pair get_next_message returns under NO_WIFI: "[[1, 2, 3], [4, 5, 6]]"
\* with a usage of four zeros; no attempt at the provider is behind it
Canned == [tag |-> "pair", attempt |-> 0]

Unborn ==
    [ctl |-> "none", model |-> "none", pc |-> "unborn", retry_count |-> 0,
     max_retries |-> 0, calls |-> 0, waits |-> 0, slept |-> <<>>,
     stream |-> FALSE, max_tokens |-> 0, dumps |-> 0, res |-> Pending]

DefaultMaxRetries(ctl) ==
    CASE ctl = "anthropic" -> anthropic_max_retries
      [] ctl = "deepseek" -> deepseek_max_retries
      [] ctl = "openai" -> openai_max_retries
      [] ctl = "xai" -> xai_max_retries
      [] ctl = "gemini" -> gemini_max_retries
      [] ctl = "openrouter" -> openrouter_max_retries
      [] ctl = "get_next_message" -> legacy_max_retries

\* a controller call that has entered its loop and issued its first call
NewTask(ctl, m, stream, max_tokens) ==
    [ctl |-> ctl, model |-> m, pc |-> "inflight", retry_count |-> 0,
     max_retries |-> DefaultMaxRetries(ctl), calls |-> 1, waits |-> 0,
     slept |-> <<>>, stream |-> stream, max_tokens |-> max_tokens, dumps |-> 0,
     res |-> Pending]

Finish(t, r) == [t EXCEPT !.pc = "done", !.res = r]

\* retry_or_give_up with the test retry_count > max_retries
retry_or_give_up_late(t) ==
    LET rc == t.retry_count + 1
    IN  IF rc > t.max_retries
        THEN Finish([t EXCEPT !.retry_count = rc], NoneResult)
        ELSE [t EXCEPT !.retry_count = rc, !.pc = "sleep", !.waits = @ + 1,
                       !.slept = Append(@, retry_secs)]

\* retry_or_give_up with the sleep before the test of retry_count
retry_or_give_up_after_sleep(t) ==
    LET rc == t.retry_count + 1
    IN  IF rc >= t.max_retries
        THEN Finish([t EXCEPT !.retry_count = rc, !.waits = @ + 1,
                              !.slept = Append(@, retry_secs)], NoneResult)
        ELSE [t EXCEPT !.retry_count = rc, !.pc = "sleep", !.waits = @ + 1,
                       !.slept = Append(@, retry_secs)]

\* retry_count += 1; if retry_count >= max_retries: return None;
\* await asyncio.sleep(retry_secs)
retry_or_give_up(t) ==
    LET rc == t.retry_count + 1
    IN  IF rc >= t.max_retries
        THEN Finish([t EXCEPT !.retry_count = rc], NoneResult)
        ELSE [t EXCEPT !.retry_count = rc, !.pc = "sleep", !.waits = @ + 1,
                       !.slept = Append(@, retry_secs)]

\* get_next_message_anthropic: what the loop does with the answer to a call
get_next_message_anthropic(i, t, o) ==
    IF o.kind = "ok" THEN Finish(t, Pair(i))
    ELSE IF o.kind = "rate_limit" THEN retry_or_give_up(t)
    ELSE IF "invalid x-api-key" \in ErrText(o.kind) THEN Finish(t, NoneResult)
    ELSE retry_or_give_up(t)

\* get_next_message_deepseek without the min(8192, ...)
get_next_message_deepseek_unclamped(i, t, o) ==
    IF o.kind = "ok" THEN Finish(t, Pair(i))
    ELSE IF "tokens (" \in ErrText(o.kind) /\ o.kind # "tokens_unparseable"
    THEN LET max_completion_tokens == MAX_CONTEXT_LENGTH - o.prompt_tokens
         IN  IF max_completion_tokens <= 0 THEN Finish(t, NoneResult)
             ELSE retry_or_give_up(
                    [t EXCEPT !.max_tokens = max_completion_tokens])
    ELSE retry_or_give_up(t)

\* get_next_message_deepseek
get_next_message_deepseek(i, t, o) ==
    IF o.kind = "ok" THEN Finish(t, Pair(i))
    ELSE IF "tokens (" \in ErrText(o.kind) /\ o.kind # "tokens_unparseable"
    THEN LET max_completion_tokens == MAX_CONTEXT_LENGTH - o.prompt_tokens
         IN  IF max_completion_tokens <= 0 THEN Finish(t, NoneResult)
             ELSE retry_or_give_up(
                    [t EXCEPT !.max_tokens = Min(8192, max_completion_tokens)])
    ELSE retry_or_give_up(t)

\* get_next_message_openai
get_next_message_openai(i, t, o) ==
    IF o.kind = "ok" THEN Finish(t, Pair(i)) ELSE retry_or_give_up(t)

\* get_next_message_xai
get_next_message_xai(i, t, o) ==
    IF o.kind = "ok" THEN Finish(t, Pair(i)) ELSE retry_or_give_up(t)

\* get_next_message_gemini
get_next_message_gemini(i, t, o) ==
    IF o.kind = "ok" THEN Finish(t, Pair(i))
    ELSE IF "invalid x-api-key" \in ErrText(o.kind) THEN Finish(t, NoneResult)
    ELSE retry_or_give_up(t)

\* get_next_message, as the OpenRouter wrapper calls it: whether the model
\* has a branch that issues a provider call
get_next_message_dispatches(m) ==
    m \in {"openrouter_claude_3_5_sonnet", "openrouter_model",
           "openrouter_o1_mini"}

\* get_next_message streams for openrouter_model when STREAM_LLM is "1"
get_next_message_streams(m, flag) == m = "openrouter_model" /\ flag

\* get_next_message, openrouter_model without streaming: a response without
\* choices is written to messages.json before the ValueError is raised
no_choices_dump(t, o) ==
    IF o.kind = "no_choices" THEN [t EXCEPT !.dumps = @ + 1] ELSE t

should_retry(text) ==
    text \cap {"429", "rate", "502", "upstream", "no choices"} # {}

\* get_message_with_retry with every error re-raised at once
get_message_with_retry_fatal(i, t0, o) ==
    LET t == no_choices_dump(t0, o)
    IN  IF o.kind = "ok" THEN Finish(t, Pair(i)) ELSE Finish(t, Raised)

\* get_message_with_retry with wait_time = (retry + 1) * 10
get_message_with_retry_linear(i, t0, o) ==
    LET t == no_choices_dump(t0, o)
    IN  IF o.kind = "ok" THEN Finish(t, Pair(i))
        ELSE IF should_retry(ErrText(o.kind))
        THEN IF t.retry_count < t.max_retries - 1
             THEN [t EXCEPT !.retry_count = @ + 1, !.pc = "sleep",
                            !.waits = @ + 1,
                            !.slept = Append(@, (t.retry_count + 1) * 10)]
             ELSE Finish(t, Raised)
        ELSE Finish(t, Raised)

\* get_message_with_retry: the for loop over retry in range(max_retries);
\* retry_count is the loop variable; wait_time = 2 ** retry * 10
get_message_with_retry(i, t0, o) ==
    LET t == no_choices_dump(t0, o)
    IN  IF o.kind = "ok" THEN Finish(t, Pair(i))
        ELSE IF should_retry(ErrText(o.kind))
        THEN IF t.retry_count < t.max_retries - 1
             THEN [t EXCEPT !.retry_count = @ + 1, !.pc = "sleep",
                            !.waits = @ + 1,
                            !.slept = Append(@, 2 ^ t.retry_count * 10)]
             ELSE Finish(t, Raised)
        ELSE Finish(t, Raised)

\* the controller of task t handling the answer o to its call in flight
ControllerStep(i, t, o) ==
    CASE t.ctl = "anthropic" -> get_next_message_anthropic(i, t, o)
      [] t.ctl = "deepseek" -> get_next_message_deepseek(i, t, o)
      [] t.ctl = "openai" -> get_next_message_openai(i, t, o)
      [] t.ctl = "xai" -> get_next_message_xai(i, t, o)
      [] t.ctl = "gemini" -> get_next_message_gemini(i, t, o)
      [] t.ctl = "openrouter" -> get_message_with_retry(i, t, o)

\* the answers the provider can give to the call task t has in flight
Answers(t) ==
    {Outcome(k, 0) : k \in {"ok", "rate_limit", "tokens_unparseable",
                            "upstream", "other"} \cup AuthKinds(t.ctl)}
    \cup {Outcome("context_length", p) : p \in PromptTokenCases}
    \cup (IF t.model = "openrouter_model"
          THEN {Outcome(IF t.stream THEN "no_content" ELSE "no_choices", 0)}
          ELSE {})

\* the answers under the provider's behaviour in this run
ProviderAnswers(t) ==
    CASE provider = "any" -> Answers(t)
      [] provider = "rate_limited" -> {Outcome("rate_limit", 0)}
      [] provider = "unavailable" -> {Outcome("upstream", 0)}
      [] provider = "auth_invalid" -> {Outcome(k, 0) : k \in AuthKinds(t.ctl)}

\* ------------------------------------------------------- get_next_messages
TaskIds == 1..MaxN
ProviderModes == {"any", "rate_limited", "unavailable", "auth_invalid"}

SystemMsg == Msg("system", <<TextPart>>)
\* the conversations a caller passes in Spec: a system prompt with a user
\* message of hinted text and image parts; an image-only user message
\* followed by a bare string prompt
CallerConversations ==
    { <<SystemMsg, Msg("user", <<Part("text", TRUE), Part("image_url", TRUE),
                                 Part("text", TRUE)>>)>>,
      <<Msg("user", <<Part("image_url", FALSE)>>), StrMsg("user")>> }

NoRet == [kind |-> "unset", items |-> <<>>]
RaiseRet == [kind |-> "raise", items |-> <<>>]
NoneRet == [kind |-> "None", items |-> <<>>]
ListRet(s) == [kind |-> "list", items |-> s]

RECURSIVE FilterNones(_)
\* [m for m in n_messages if m]: None is falsy, a (text, usage) pair is not
FilterNones(s) ==
    IF s = <<>> THEN <<>>
    ELSE (IF Head(s).tag = "pair" THEN <<Head(s)>> ELSE <<>>)
         \o FilterNones(Tail(s))

\* what the branch of model m does with n_messages once it has them
function_return(m, n_messages) ==
    IF m \in DeepSeekModels THEN NoneRet ELSE ListRet(FilterNones(n_messages))

\* returns_empty with the test n_times < 0
returns_empty_negative(n) == n < 0

\* if n_times <= 0: return []
returns_empty(n) == n <= 0

\* stream_enabled without the test of n_times
stream_enabled_any_n(flag, n) == flag

\* stream_enabled = os.environ.get("STREAM_LLM", "0") == "1" and n_times == 1
stream_enabled(flag, n) == flag /\ n = 1

\* PrimaryFirst with every attempt of every branch in one gather
PrimaryFirst_all_gathered(m, se) == m \in XaiModels /\ se

\* the branches that await one attempt before gathering the others
PrimaryFirst(m, se) ==
    \/ m \in AnthropicModels \cup OpenAIModels \cup {"deep_seek_r1"}
    \/ m \in XaiModels /\ se

\* the controller call a branch issues for an attempt
TaskFor(m, se, flag, primary) ==
    IF m \in AnthropicModels
    THEN NewTask("anthropic", m, primary /\ se, 0)
    ELSE IF m \in OpenAIModels
    THEN NewTask("openai", m, primary /\ se, 0)
    ELSE IF m = "deep_seek_r1"
    THEN NewTask("deepseek", m, FALSE, deepseek_max_tokens)
    ELSE IF m = "baseten_deepseek_r1"
    THEN NewTask("deepseek", m, TRUE, baseten_max_tokens)
    ELSE IF m \in XaiModels
    THEN NewTask("xai", m, se, 0)
    ELSE IF m \in GeminiModels
    THEN NewTask("gemini", m, FALSE, 0)
    ELSE IF NO_WIFI
    THEN \* get_next_message returns the canned pair before it looks at the model
         Finish([NewTask("openrouter", m, FALSE, 0) EXCEPT !.calls = 0], Canned)
    ELSE IF get_next_message_dispatches(m)
    THEN NewTask("openrouter", m, get_next_message_streams(m, flag), 0)
    ELSE \* get_next_message raises "Invalid model", which is not retried
         Finish([NewTask("openrouter", m, FALSE, 0) EXCEPT !.calls = 0], Raised)

Init ==
    /\ NO_WIFI = FALSE
    /\ STREAM_LLM \in BOOLEAN
    /\ provider \in ProviderModes
    /\ messages0 \in CallerConversations
    /\ messages = messages0
    /\ model = "none"
    /\ n_times = 0
    /\ pc = "idle"
    /\ client = "none"
    /\ sent = [system |-> <<>>, messages |-> <<>>]
    /\ tasks = [i \in TaskIds |-> Unborn]
    /\ finished = <<>>
    /\ ret = NoRet
    /\ SideIdle

\* get_next_messages(messages, model, temperature, n_times) up to its first
\* await: the n_times test, the translation, the client, the first attempts
Call(m, n) ==
    /\ pc = "idle"
    /\ model' = m
    /\ n_times' = n
    /\ IF returns_empty(n)
       THEN /\ pc' = "returned"
            /\ ret' = ListRet(<<>>)
            /\ UNCHANGED <<messages, client, sent, tasks, finished>>
       ELSE LET s == Setup(m, messages)
                se == stream_enabled(STREAM_LLM, n)
            IN  /\ messages' = s.caller
                /\ client' = s.client
                /\ sent' = s.sent
                /\ IF s.raised
                   THEN /\ pc' = "raised"
                        /\ ret' = RaiseRet
                        /\ UNCHANGED <<tasks, finished>>
                   ELSE IF PrimaryFirst(m, se)
                   THEN /\ tasks' = [tasks EXCEPT
                                       ![1] = TaskFor(m, se, STREAM_LLM, TRUE)]
                        /\ pc' = "primary"
                        /\ UNCHANGED <<ret, finished>>
                   ELSE /\ tasks' = [i \in TaskIds |->
                                       IF i <= n
                                       THEN TaskFor(m, se, STREAM_LLM, FALSE)
                                       ELSE Unborn]
                        /\ pc' = "gather"
                        /\ UNCHANGED <<ret, finished>>
    /\ UNCHANGED <<side_vars, NO_WIFI, STREAM_LLM, provider, messages0>>

\* range(n_times - 1) without its attempts
secondaries_none(n) == 0

\* for _ in range(n_times - 1): the attempts gathered after the first one
secondaries(n) == n - 1

\* the provider answers the call attempt i has in flight and the controller
\* handles the answer; when the awaited first attempt ends, the branch goes
\* on to gather the other n_times - 1 attempts (or returns when there are none)
RespondStep(i, o) ==
    /\ tasks[i].pc = "inflight"
    /\ o \in ProviderAnswers(tasks[i])
    /\ LET t2 == ControllerStep(i, tasks[i], o)
       IN  /\ UNCHANGED finished
           /\ IF pc = "primary" /\ i = 1 /\ t2.pc = "done"
              THEN IF secondaries(n_times) <= 0
                   THEN /\ tasks' = [tasks EXCEPT ![1] = t2]
                        /\ pc' = "returned"
                        /\ ret' = function_return(model, <<t2.res>>)
                   ELSE /\ tasks' = [j \in TaskIds |->
                                       IF j = 1 THEN t2
                                       ELSE IF j <= 1 + secondaries(n_times)
                                       THEN TaskFor(model, FALSE, STREAM_LLM, FALSE)
                                       ELSE Unborn]
                        /\ pc' = "gather"
                        /\ UNCHANGED ret
              ELSE /\ tasks' = [tasks EXCEPT ![i] = t2]
                   /\ UNCHANGED <<pc, ret>>
    /\ UNCHANGED <<side_vars, NO_WIFI, STREAM_LLM, provider, messages0, messages, model,
                   n_times,
                   client, sent>>

RECURSIVE Retries(_)
\* the retries of attempts 1..k so far
Retries(k) == IF k = 0 THEN 0 ELSE tasks[k].retry_count + Retries(k - 1)

\* in Spec the provider makes the attempts retry at most MaxFail times in all
WithinMaxFail(i, o) == o.kind = "ok" \/ Retries(MaxN) < MaxFail

TaskRespond ==
    \E i \in TaskIds : \E o \in Answers(tasks[i]) :
        WithinMaxFail(i, o) /\ RespondStep(i, o)

\* asyncio.sleep is over: the loop issues the next provider call
WakeStep(i) ==
    /\ tasks[i].pc = "sleep"
    /\ tasks' = [tasks EXCEPT ![i].pc = "inflight", ![i].calls = @ + 1]
    /\ UNCHANGED <<side_vars, finished, NO_WIFI, STREAM_LLM, provider, messages0, messages, model,
                   n_times,
                   pc, client, sent, ret>>

TaskWake == \E i \in TaskIds : WakeStep(i)

\* n_messages with the results in the order the attempts ended
gather_results_as_completed(n) ==
    [k \in 1..Len(finished) |-> tasks[finished[k]].res]

\* n_messages: the results in the order of the awaitables handed to
\* asyncio.gather, after the result of the awaited first attempt if any
gather_results(n) == [i \in 1..n |-> tasks[i].res]

\* await asyncio.gather(...) resumes: with the first exception of an attempt
\* as soon as there is one (the other attempts are left running), otherwise
\* with the results, in the order of the attempts, once all are done
Settle ==
    /\ pc = "gather"
    /\ LET ids == 1..n_times
       IN  IF \E i \in ids : tasks[i].res = Raised
           THEN pc' = "raised" /\ ret' = RaiseRet
           ELSE /\ \A i \in ids : tasks[i].pc = "done"
                /\ pc' = "returned"
                /\ ret' = function_return(model, gather_results(n_times))
    /\ UNCHANGED <<side_vars, finished, NO_WIFI, STREAM_LLM, provider, messages0, messages, model,
                   n_times,
                   client, sent, tasks>>

Next ==
    \/ \E m \in Models : \E n \in -1..MaxN : Call(m, n)
    \/ TaskRespond
    \/ TaskWake
    \/ Settle

Spec == Init /\ [][Next]_vars

\* ------------------------------------------------- the order of the results
\* SpecOrder: the fan-out call of Spec for one model of each kind of branch,
\* with the order in which the attempts end written down in finished.
OrderModels ==
    {"claude_3_5_sonnet", "grok_3", "gemini_1_5_pro", "openrouter_model"}

OrderCall == \E m \in OrderModels : \E n \in 1..MaxN : Call(m, n)

\* RespondStep, and the attempt is noted when this answer ends it
OrderRespond ==
    \E i \in TaskIds : \E o \in Answers(tasks[i]) :
        /\ WithinMaxFail(i, o)
        /\ tasks[i].pc = "inflight"
        /\ o \in ProviderAnswers(tasks[i])
        /\ LET t2 == ControllerStep(i, tasks[i], o)
           IN  /\ finished' = IF t2.pc = "done" THEN Append(finished, i)
                              ELSE finished
               /\ IF pc = "primary" /\ i = 1 /\ t2.pc = "done"
                  THEN IF secondaries(n_times) <= 0
                       THEN /\ tasks' = [tasks EXCEPT ![1] = t2]
                            /\ pc' = "returned"
                            /\ ret' = function_return(model, <<t2.res>>)
                       ELSE /\ tasks' = [j \in TaskIds |->
                                           IF j = 1 THEN t2
                                           ELSE IF j <= 1 + secondaries(n_times)
                                           THEN TaskFor(model, FALSE, STREAM_LLM,
                                                        FALSE)
                                           ELSE Unborn]
                            /\ pc' = "gather"
                            /\ UNCHANGED ret
                  ELSE /\ tasks' = [tasks EXCEPT ![i] = t2]
                       /\ UNCHANGED <<pc, ret>>
        /\ UNCHANGED <<side_vars, NO_WIFI, STREAM_LLM, provider, messages0,
                       messages, model, n_times, client, sent>>

NextOrder == OrderCall \/ OrderRespond \/ TaskWake \/ Settle

SpecOrder == Init /\ [][NextOrder]_vars

\* ------------------------------------------- one retry controller, alone
\* SpecCtl: one controller call made the way get_next_messages makes its
\* first one, with the provider free to fail it as often as it likes.
ControllerModels ==
    {"claude_3_5_sonnet", "gpt_4o", "deep_seek_r1", "baseten_deepseek_r1",
     "grok_3", "gemini_1_5_pro", "openrouter_model"}

InitCtl ==
    /\ NO_WIFI = FALSE
    /\ STREAM_LLM \in BOOLEAN
    /\ provider \in ProviderModes
    /\ messages0 = <<StrMsg("user")>>
    /\ messages = messages0
    /\ model \in ControllerModels
    /\ n_times = 1
    /\ pc = "direct"
    /\ client = "none"
    /\ sent = [system |-> <<>>, messages |-> messages0]
    /\ tasks = [i \in TaskIds |->
                  IF i = 1 THEN TaskFor(model, STREAM_LLM, STREAM_LLM, TRUE)
                  ELSE Unborn]
    /\ finished = <<>>
    /\ ret = NoRet
    /\ SideIdle

CtlRespond == \E o \in Answers(tasks[1]) : RespondStep(1, o)

CtlWake == WakeStep(1)

NextCtl == CtlRespond \/ CtlWake

SpecCtl == InitCtl /\ [][NextCtl]_vars

\* SpecCtlFair: SpecCtl with a provider that answers every call and sleeps
\* that end
SpecCtlFair == SpecCtl /\ WF_vars(CtlRespond) /\ WF_vars(CtlWake)

\* --------------------------------------------- the translations, alone
\* SpecTranslate: get_next_messages up to its first await, on every
\* conversation of at most MaxParts parts: an optional system message (with
\* a hint), the parts as one user message or split into a user and an
\* assistant message, and an optional closing user message of string content.
TranslatePartKinds ==
    {Part("text", FALSE), Part("text", TRUE), Part("image_url", TRUE)}

Bodies ==
    {<<Msg("user", ps)>> : ps \in SeqsUpTo(TranslatePartKinds, MaxParts)}
    \cup UNION {{<<Msg("user", SubSeq(ps, 1, k)),
                   Msg("assistant", SubSeqFrom(ps, k + 1))>> :
                    k \in 1..(Len(ps) - 1)} :
                  ps \in SeqsUpTo(TranslatePartKinds, MaxParts)}

TranslateConversations ==
    {sys \o body \o tail :
        sys \in {<<>>, <<Msg("system", <<Part("text", TRUE)>>)>>},
        body \in Bodies,
        tail \in {<<>>, <<StrMsg("user")>>}}

TranslateModels == {"claude_3_5_sonnet", "claude_3_5_haiku", "gpt_4o", "o1_mini"}

InitTranslate ==
    /\ NO_WIFI = FALSE
    /\ STREAM_LLM = FALSE
    /\ provider = "any"
    /\ messages0 \in TranslateConversations
    /\ messages = messages0
    /\ model = "none"
    /\ n_times = 0
    /\ pc = "idle"
    /\ client = "none"
    /\ sent = [system |-> <<>>, messages |-> <<>>]
    /\ tasks = [i \in TaskIds |-> Unborn]
    /\ finished = <<>>
    /\ ret = NoRet
    /\ SideIdle

\* get_next_messages is called again, for the same model and with the
\* conversation objects the first call left behind, up to its first await
CallAgain ==
    /\ pc = "primary"
    /\ LET s == Setup(model, messages)
           se == stream_enabled(STREAM_LLM, n_times)
       IN  /\ messages' = s.caller
           /\ client' = s.client
           /\ sent' = s.sent
           /\ IF s.raised
              THEN pc' = "raised" /\ ret' = RaiseRet /\ UNCHANGED tasks
              ELSE /\ tasks' = [tasks EXCEPT
                                  ![1] = TaskFor(model, se, STREAM_LLM, TRUE)]
                   /\ pc' = "reused"
                   /\ UNCHANGED ret
    /\ UNCHANGED <<side_vars, finished, NO_WIFI, STREAM_LLM, provider,
                   messages0, model, n_times>>

NextTranslate == (\E m \in TranslateModels : Call(m, 1)) \/ CallAgain

SpecTranslate == InitTranslate /\ [][NextTranslate]_vars

\* ------------------------------------------- get_next_message, called alone
\* SpecLegacy: one call of the single-attempt get_next_message.
LegacyModels ==
    {"claude_3_5_sonnet", "gpt_4o", "nvidia_llama_3_1_nemotron_70b_instruct",
     "openrouter_claude_3_5_sonnet", "openrouter_model", "gemini_1_5_pro",
     "openrouter_o1", "deep_seek_r1", "openrouter_o1_mini", "azure_gpt_4o",
     "azure_gpt_4o_mini"}

\* lines 817-829: an image_url part becomes an image part, in place
legacy_anthropic_images(msgs) ==
    [j \in 1..Len(msgs) |->
       IF msgs[j].isStr THEN msgs[j]
       ELSE Msg(msgs[j].role,
                [i \in 1..Len(msgs[j].parts) |->
                   Part(IF msgs[j].parts[i].type = "image_url" THEN "image"
                        ELSE msgs[j].parts[i].type,
                        msgs[j].parts[i].cache_control)])]

\* what a branch of get_next_message does before its provider call
legacy_setup(m, conv) ==
    LET hasSys == conv[1].role = "system"
        rest == IF hasSys THEN Tail(conv) ELSE conv
    IN  IF m \in AnthropicModels
        THEN Prepared((IF hasSys THEN <<conv[1]>> ELSE <<>>)
                        \o legacy_anthropic_images(rest),
                      IF hasSys THEN <<conv[1]>> ELSE <<>>,
                      legacy_anthropic_images(rest), "anthropic")
        ELSE IF m = "gpt_4o" THEN Prepared(conv, <<>>, conv, "openai")
        ELSE IF m = "nvidia_llama_3_1_nemotron_70b_instruct"
        THEN Prepared(conv, <<>>, text_only_messages(conv), "nvidia")
        ELSE IF m \in {"openrouter_claude_3_5_sonnet", "openrouter_model",
                      "openrouter_o1_mini"}
        THEN Prepared(conv, <<>>, conv, "openrouter")
        \* line 1041 compares the model with a list of two models, which no
        \* model equals: the Azure branch is never taken
        ELSE IF m = "gemini_1_5_pro"
        THEN IF hasSys /\ ~conv[1].isStr /\ conv[1].parts # <<>>
                /\ conv[1].parts[1].type = "text"
             THEN Prepared(conv, <<conv[1]>>, gemini_contents(rest), "gemini")
             ELSE SetupRaised(conv, "none")
        ELSE SetupRaised(conv, "none")

\* get_next_message with "return None" in place of "raise" after max_retries
get_next_message_absent(i, t0, o) ==
    LET t == no_choices_dump(t0, o)
        rc == t.retry_count + 1
    IN  IF o.kind = "ok" THEN Finish(t, Pair(i))
        ELSE IF t.model \in AnthropicModels /\ o.kind = "rate_limit"
        THEN IF rc >= t.max_retries
             THEN Finish([t EXCEPT !.retry_count = rc], NoneResult)
             ELSE [t EXCEPT !.retry_count = rc, !.pc = "sleep", !.waits = @ + 1,
                            !.slept = Append(@, 15)]
        ELSE Finish(t, Raised)

\* get_next_message: what it does with the answer to its provider call. Only
\* the Anthropic branch has a loop, and only around RateLimitError.
get_next_message(i, t0, o) ==
    LET t == no_choices_dump(t0, o)
        rc == t.retry_count + 1
    IN  IF o.kind = "ok" THEN Finish(t, Pair(i))
        ELSE IF t.model \in AnthropicModels /\ o.kind = "rate_limit"
        THEN IF rc >= t.max_retries
             THEN Finish([t EXCEPT !.retry_count = rc], Raised)
             ELSE [t EXCEPT !.retry_count = rc, !.pc = "sleep", !.waits = @ + 1,
                            !.slept = Append(@, 15)]
        ELSE Finish(t, Raised)

PairRet(r) == [kind |-> "pair", items |-> <<r>>]

InitLegacy ==
    /\ NO_WIFI \in BOOLEAN
    /\ STREAM_LLM \in BOOLEAN
    /\ provider \in ProviderModes
    /\ messages0 \in CallerConversations
    /\ messages = messages0
    /\ model = "none"
    /\ n_times = 0
    /\ pc = "idle"
    /\ client = "none"
    /\ sent = [system |-> <<>>, messages |-> <<>>]
    /\ tasks = [i \in TaskIds |-> Unborn]
    /\ finished = <<>>
    /\ ret = NoRet
    /\ SideIdle

\* get_next_message(messages, model, temperature) up to its provider call
GetNextMessage(m) ==
    /\ pc = "idle"
    /\ model' = m
    /\ n_times' = 1
    /\ IF NO_WIFI
       THEN /\ pc' = "returned"
            /\ ret' = PairRet(Canned)
            /\ UNCHANGED <<messages, client, sent, tasks>>
       ELSE LET s == legacy_setup(m, messages)
            IN  /\ messages' = s.caller
                /\ client' = s.client
                /\ sent' = s.sent
                /\ IF s.raised
                   THEN pc' = "raised" /\ ret' = RaiseRet /\ UNCHANGED tasks
                   ELSE /\ tasks' = [tasks EXCEPT ![1] =
                                       NewTask("get_next_message", m,
                                               get_next_message_streams(
                                                   m, STREAM_LLM), 0)]
                        /\ pc' = "legacy"
                        /\ UNCHANGED ret
    /\ UNCHANGED <<side_vars, finished, NO_WIFI, STREAM_LLM, provider, messages0>>

\* the provider answers the call; get_next_message returns, raises or waits
LegacyRespond ==
    \E o \in ProviderAnswers(tasks[1]) :
        /\ pc = "legacy"
        /\ tasks[1].pc = "inflight"
        /\ LET t2 == get_next_message(1, tasks[1], o)
           IN  /\ tasks' = [tasks EXCEPT ![1] = t2]
               /\ IF t2.pc # "done" THEN UNCHANGED <<pc, ret>>
                  ELSE IF t2.res = Raised
                  THEN pc' = "raised" /\ ret' = RaiseRet
                  ELSE pc' = "returned" /\ ret' = PairRet(t2.res)
        /\ UNCHANGED <<side_vars, finished, NO_WIFI, STREAM_LLM, provider, messages0, messages,
                       model, n_times, client, sent>>

LegacyWake == pc = "legacy" /\ WakeStep(1)

NextLegacy ==
    \/ \E m \in LegacyModels : GetNextMessage(m)
    \/ LegacyRespond
    \/ LegacyWake

SpecLegacy == InitLegacy /\ [][NextLegacy]_vars

\* ------------------------------------------- get_next_messages under NO_WIFI
\* SpecNoWifi: the fan-out of Spec, run with NO_WIFI=1.
InitNoWifi ==
    /\ NO_WIFI = TRUE
    /\ STREAM_LLM \in BOOLEAN
    /\ provider = "any"
    /\ messages0 \in CallerConversations
    /\ messages = messages0
    /\ model = "none"
    /\ n_times = 0
    /\ pc = "idle"
    /\ client = "none"
    /\ sent = [system |-> <<>>, messages |-> <<>>]
    /\ tasks = [i \in TaskIds |-> Unborn]
    /\ finished = <<>>
    /\ ret = NoRet
    /\ SideIdle

SpecNoWifi == InitNoWifi /\ [][Next]_vars

\* ----------------------------------------------------- usage normalisation
\* SpecUsage: each place that builds a ModelUsage from an OpenAI-style
\* response, applied to the usage the provider sent.
\*   openai 276-282, openai_stream 302-308, deepseek 179-185,
\*   deepseek_stream 202-211, xai 382-388, xai_stream 397-403,
\*   gemini 459-465, legacy_openai 869-875, openrouter 929-938 (also
\*   1031-1040), openrouter_model 961-971, openrouter_model_stream 1002-1011
DetailsPaths ==
    {"openai", "openai_stream", "deepseek", "deepseek_stream", "legacy_openai",
     "openrouter", "openrouter_model", "openrouter_model_stream"}
FlatPaths == {"xai", "xai_stream", "gemini"}
UsagePaths == DetailsPaths \cup FlatPaths

\* the paths that read prompt_tokens_details.cached_tokens without testing
\* prompt_tokens_details
UncheckedDetailsPaths == {"openai", "deepseek", "legacy_openai"}

TokenCounts == {0, 40, 100}
CompletionCounts == {0, 7}

\* the cached-token count of a response: an int, None, or (on the paths with
\* prompt_tokens_details) no details object at all
CachedInt(n) == [kind |-> "int", n |-> n]
CachedNone == [kind |-> "None", n |-> 0]
CachedMissing == [kind |-> "missing", n |-> 0]

RawUsages ==
    {[path |-> p, prompt_tokens |-> P, cached |-> c, completion_tokens |-> o] :
       p \in UsagePaths, P \in TokenCounts, o \in CompletionCounts,
       c \in {CachedInt(n) : n \in TokenCounts} \cup {CachedNone, CachedMissing}}
    \ {r \in [path : FlatPaths, prompt_tokens : TokenCounts,
               cached : {CachedMissing}, completion_tokens : CompletionCounts] :
         TRUE}

\* the ModelUsage with input_tokens = prompt_tokens, nothing subtracted
model_usage_not_subtracted(r) ==
    IF r.cached.kind = "int"
    THEN ModelUsage(0, r.cached.n, r.prompt_tokens, r.completion_tokens)
    ELSE UsageRaised

\* cached_tokens = ...; ModelUsage(0, cached_tokens,
\* prompt_tokens - cached_tokens, completion_tokens)
model_usage(r) ==
    IF r.cached.kind = "int"
    THEN ModelUsage(0, r.cached.n, r.prompt_tokens - r.cached.n,
                    r.completion_tokens)
    ELSE IF r.cached.kind = "missing"
    THEN IF r.path \in UncheckedDetailsPaths
         THEN UsageRaised   \* None has no attribute cached_tokens
         ELSE ModelUsage(0, 0, r.prompt_tokens, r.completion_tokens)
    ELSE IF r.path = "deepseek_stream"
    THEN ModelUsage(0, 0, r.prompt_tokens, r.completion_tokens)  \* "or 0"
    ELSE UsageRaised       \* int - None

\* no fan-out call is running
FanoutIdle ==
    /\ NO_WIFI = FALSE
    /\ STREAM_LLM = FALSE
    /\ provider = "any"
    /\ messages0 = <<>>
    /\ messages = <<>>
    /\ model = "none"
    /\ n_times = 0
    /\ pc = "idle"
    /\ client = "none"
    /\ sent = [system |-> <<>>, messages |-> <<>>]
    /\ tasks = [i \in TaskIds |-> Unborn]
    /\ finished = <<>>
    /\ ret = NoRet

InitUsage ==
    /\ FanoutIdle
    /\ parsed = <<>>
    /\ raw \in RawUsages
    /\ usage = NoUsage
    /\ attempt_counter = <<>>
    /\ attempts = <<>>
    /\ stream_outputs = <<>>
    /\ stream_call = <<>>

\* the adapter builds the usage of the response it got
BuildUsage ==
    /\ usage = NoUsage
    /\ usage' = model_usage(raw)
    /\ UNCHANGED <<fanout_vars, raw, attempt_counter, attempts, stream_outputs,
                   stream_call, parsed>>

NextUsage == BuildUsage

SpecUsage == InitUsage /\ [][NextUsage]_vars

\* ------------------------------------- attempt numbers and transcript files
\* SpecIds: two get_next_messages calls for openrouter_model run concurrently
\* in one process with STREAM_LLM=1; each has reached its asyncio.gather over
\* n_times = MaxN get_message_with_retry coroutines (lines 745-795).
Callers == {1, 2}

\* what random_string(4) may return
RandomStrings == {"aaaa", "bbbb"}

\* stream_outputs/attempt_{attempt_num}_{random_string(4)}.txt
StreamFile(num, r) == [attempt_num |-> num, random_string |-> r]
StreamFiles == {StreamFile(num, r) : num \in 1..MaxN, r \in RandomStrings}

\* a get_message_with_retry coroutine that has not run yet
NewAttempt ==
    [pc |-> "created", attempt_num |-> 0, retry |-> 0,
     stream_file |-> StreamFile(0, "")]

InitIds ==
    /\ FanoutIdle
    /\ parsed = <<>>
    /\ raw = <<>>
    /\ usage = NoUsage
    /\ attempt_counter = [c \in Callers |-> 0]
    /\ attempts = [c \in Callers |-> [k \in TaskIds |-> NewAttempt]]
    /\ stream_outputs = [f \in StreamFiles |-> 0]
    /\ stream_call = <<>>

\* async with attempt_lock: attempt_counter["count"] += 1;
\* attempt_num = attempt_counter["count"]
TakeNumber(c, k) ==
    /\ attempts[c][k].pc = "created"
    /\ attempt_counter' = [attempt_counter EXCEPT ![c] = @ + 1]
    /\ attempts' = [attempts EXCEPT ![c][k].pc = "numbered",
                                    ![c][k].attempt_num = attempt_counter[c] + 1]
    /\ UNCHANGED <<fanout_vars, raw, usage, stream_outputs, stream_call,
                   parsed>>

\* get_next_message(..., attempt_num=attempt_num) names its transcript file
\* and opens it for writing
OpenStream(c, k) ==
    /\ attempts[c][k].pc = "numbered"
    /\ \E r \in RandomStrings :
         LET f == StreamFile(attempts[c][k].attempt_num, r)
         IN  /\ attempts' = [attempts EXCEPT ![c][k].pc = "streaming",
                                             ![c][k].stream_file = f]
             /\ stream_outputs' = [stream_outputs EXCEPT ![f] = @ + 1]
    /\ UNCHANGED <<fanout_vars, raw, usage, attempt_counter, stream_call,
                   parsed>>

\* the stream ended with content: get_message_with_retry returns the result
StreamReturns(c, k) ==
    /\ attempts[c][k].pc = "streaming"
    /\ attempts' = [attempts EXCEPT ![c][k].pc = "done"]
    /\ UNCHANGED <<fanout_vars, raw, usage, attempt_counter, stream_outputs,
                   stream_call, parsed>>

RECURSIVE IdRetries(_, _)
\* the retries of the attempts so far (attempts 1..k of callers 1..c)
IdRetries(c, k) ==
    IF c = 0 THEN 0
    ELSE IF k = 0 THEN IdRetries(c - 1, MaxN)
    ELSE attempts[c][k].retry + IdRetries(c, k - 1)

\* the stream failed with a retryable error: the for loop goes round after
\* its sleep, with the same attempt_num
StreamRetried(c, k) ==
    /\ attempts[c][k].pc = "streaming"
    /\ attempts[c][k].retry < openrouter_max_retries - 1
    /\ IdRetries(2, MaxN) < MaxStreamRetries
    /\ attempts' = [attempts EXCEPT ![c][k].pc = "numbered",
                                    ![c][k].retry = @ + 1]
    /\ UNCHANGED <<fanout_vars, raw, usage, attempt_counter, stream_outputs,
                   stream_call, parsed>>

NextIds ==
    \E c \in Callers : \E k \in TaskIds :
        \/ TakeNumber(c, k)
        \/ OpenStream(c, k)
        \/ StreamReturns(c, k)
        \/ StreamRetried(c, k)

SpecIds == InitIds /\ [][NextIds]_vars

\* ------------------------------------------------------ streamed responses
\* SpecStream: one streamed call inside its retry loop, for each path that
\* streams: anthropic 87-109, openai 284-309, deepseek 188-213,
\* xai 389-404, openrouter_model (get_next_message) 972-1019.
\* A text is a sequence of fragments; "<think>" and "</think>" are the tags
\* remove_thinking looks for, " " is whitespace, "" is an empty delta.
StreamPaths == {"anthropic", "openai", "deepseek", "xai", "openrouter_model"}
Fragments == {"a", " ", "<think>", "</think>", ""}
ChunkUsages == {ModelUsage(0, 0, 1, 1), ModelUsage(0, 0, 2, 2)}

\* a chunk: its delta content, its usage, and whether it has choices
Chunk(content, u, choices) ==
    [content |-> content, usage |-> u, choices |-> choices]

\* the chunks a provider emits on a path: the OpenAI-style streams carry the
\* usage in a chunk without choices, an xAI chunk can carry both, and the
\* Anthropic text_stream yields text only
ChunkKinds(path) ==
    IF path = "anthropic" THEN {Chunk(t, NoUsage, TRUE) : t \in Fragments}
    ELSE IF path = "xai"
    THEN {Chunk(t, NoUsage, TRUE) : t \in Fragments}
         \cup {Chunk(t, u, TRUE) : t \in {"", "a"}, u \in ChunkUsages}
    ELSE {Chunk(t, NoUsage, TRUE) : t \in Fragments}
         \cup {Chunk("", u, FALSE) : u \in ChunkUsages}

\* final_content = ""; usage = None: the state at the start of a try
StartStream(path, chunks, final_usage, tries) ==
    [path |-> path, chunks |-> chunks, pos |-> 0, final_content |-> <<>>,
     usage |-> NoUsage, final_usage |-> final_usage, tries |-> tries,
     pc |-> "reading", text |-> <<>>]

\* read_chunk with the usage kept from the first usage-bearing chunk only
read_chunk_first_usage(sc, ch) ==
    LET appended == IF ch.content # "" THEN Append(sc.final_content, ch.content)
                    ELSE sc.final_content
    IN  IF sc.path \in {"anthropic", "xai"} \/ ch.choices
        THEN [sc EXCEPT !.final_content = appended,
                        !.usage = IF sc.path = "xai" /\ ch.usage # NoUsage
                                     /\ @ = NoUsage
                                  THEN ch.usage ELSE @]
        ELSE [sc EXCEPT !.usage = IF ch.usage # NoUsage /\ @ = NoUsage
                                  THEN ch.usage ELSE @]

\* the body of "async for chunk in response" on each path
read_chunk(sc, ch) ==
    LET appended == IF ch.content # "" THEN Append(sc.final_content, ch.content)
                    ELSE sc.final_content
    IN  IF sc.path \in {"anthropic", "xai"} \/ ch.choices
        THEN [sc EXCEPT !.final_content = appended,
                        !.usage = IF sc.path = "xai" /\ ch.usage # NoUsage
                                  THEN ch.usage ELSE @]
        ELSE [sc EXCEPT !.usage = IF ch.usage # NoUsage THEN ch.usage ELSE @]

RECURSIVE remove_thinking(_)
\* re.sub(r"<think>.*?</think>", "", text, flags=re.DOTALL)
remove_thinking(text) ==
    IF text = <<>> THEN <<>>
    ELSE LET closes == {j \in 2..Len(text) : text[j] = "</think>"}
         IN  IF Head(text) = "<think>" /\ closes # {}
             THEN LET j == CHOOSE x \in closes : \A y \in closes : x <= y
                  IN  remove_thinking(SubSeq(text, j + 1, Len(text)))
             ELSE <<Head(text)>> \o remove_thinking(Tail(text))

RECURSIVE strip(_)
\* str.strip()
strip(text) ==
    IF text = <<>> THEN <<>>
    ELSE IF Head(text) = " " THEN strip(Tail(text))
    ELSE IF text[Len(text)] = " " THEN strip(SubSeq(text, 1, Len(text) - 1))
    ELSE text

\* what follows the loop: the final message's usage (anthropic), the
\* thinking removed and the text stripped (deepseek), the ValueError for an
\* empty text (openrouter_model); then the return
stream_end(sc) ==
    IF sc.path = "anthropic"
    THEN [sc EXCEPT !.usage = sc.final_usage, !.text = sc.final_content,
                    !.pc = "returned"]
    ELSE IF sc.path = "deepseek"
    THEN [sc EXCEPT !.final_content = strip(remove_thinking(@)),
                    !.text = strip(remove_thinking(sc.final_content)),
                    !.pc = "returned"]
    ELSE IF sc.path = "openrouter_model" /\ sc.final_content = <<>>
    THEN [sc EXCEPT !.pc = "raised"]
    ELSE [sc EXCEPT !.text = sc.final_content, !.pc = "returned"]

\* stream_retry with the accumulators of the failed try kept
stream_retry_keeps_text(sc) ==
    [sc EXCEPT !.pos = 0, !.tries = @ + 1]

\* the try failed and the loop goes round: the next try starts from
\* final_content = "" and usage = None; the provider sends its stream again
stream_retry(sc) ==
    StartStream(sc.path, sc.chunks, sc.final_usage, sc.tries + 1)

InitStream ==
    /\ FanoutIdle
    /\ parsed = <<>>
    /\ raw = <<>>
    /\ usage = NoUsage
    /\ attempt_counter = <<>>
    /\ attempts = <<>>
    /\ stream_outputs = <<>>
    /\ \E path \in StreamPaths :
         \E chunks \in SeqsUpTo(ChunkKinds(path), MaxChunks) :
           \E fu \in (IF path = "anthropic" THEN ChunkUsages ELSE {NoUsage}) :
             stream_call = StartStream(path, chunks, fu, 0)

\* the next chunk arrives and the loop body handles it
ReadChunk ==
    /\ stream_call.pc = "reading"
    /\ stream_call.pos < Len(stream_call.chunks)
    /\ stream_call' =
         [read_chunk(stream_call, stream_call.chunks[stream_call.pos + 1])
            EXCEPT !.pos = @ + 1]
    /\ UNCHANGED <<fanout_vars, raw, usage, attempt_counter, attempts,
                   stream_outputs, parsed>>

\* the stream is exhausted
StreamEnds ==
    /\ stream_call.pc = "reading"
    /\ stream_call.pos = Len(stream_call.chunks)
    /\ stream_call' = stream_end(stream_call)
    /\ UNCHANGED <<fanout_vars, raw, usage, attempt_counter, attempts,
                   stream_outputs, parsed>>

\* the stream breaks with a retryable error before its end
StreamFails ==
    /\ stream_call.pc = "reading"
    /\ stream_call.tries < MaxStreamRetries
    /\ stream_call' = stream_retry(stream_call)
    /\ UNCHANGED <<fanout_vars, raw, usage, attempt_counter, attempts,
                   stream_outputs, parsed>>

NextStream == ReadChunk \/ StreamEnds \/ StreamFails

SpecStream == InitStream /\ [][NextStream]_vars

\* ------------------------------------------------------- DeepSeek responses
\* SpecThinking: one provider call of get_next_message_deepseek that
\* succeeds (lines 172-221, 245), with the text the provider sent: streamed
\* when use_baseten is set (line 169), a whole message otherwise.
\* what the controller returns as final_content: the message content as it
\* is (line 186), or the accumulated stream with the thinking removed and
\* stripped (line 212)
deepseek_final_content(use_baseten, content) ==
    IF use_baseten THEN strip(remove_thinking(content)) ELSE content

InitThinking ==
    /\ FanoutIdle
    /\ parsed = <<>>
    /\ raw = <<>>
    /\ usage = NoUsage
    /\ attempt_counter = <<>>
    /\ attempts = <<>>
    /\ stream_outputs = <<>>
    /\ \E b \in BOOLEAN :
         \E content \in SeqsUpTo(Fragments \ {""}, MaxChunks) :
           stream_call = [path |-> "deepseek", use_baseten |-> b,
                          content |-> content, pc |-> "calling", text |-> <<>>]

\* the provider answers and the controller returns final_content, usage
DeepseekReturns ==
    /\ stream_call.pc = "calling"
    /\ stream_call' =
         [stream_call EXCEPT
            !.pc = "returned",
            !.text = deepseek_final_content(stream_call.use_baseten,
                                            stream_call.content)]
    /\ UNCHANGED <<fanout_vars, raw, usage, attempt_counter, attempts,
                   stream_outputs, parsed>>

SpecThinking == InitThinking /\ [][DeepseekReturns]_vars

\* --------------------------------------------------------- transcript files
\* SpecTranscript: two get_next_messages calls for openrouter_model run
\* concurrently with STREAM_LLM=1 and n_times = 1; each has taken attempt
\* number 1 from its own attempt_counter (lines 745-753) and streams inside
\* get_next_message (lines 972-1019). stream_outputs maps a file name to the
\* contents on disk, a sequence of one-character fragments.
\* the deltas of the stream caller c reads: its own letter, or empty
TranscriptFragments(c) == {IF c = 1 THEN "a" ELSE "b", ""}
TranscriptFiles == {StreamFile(1, r) : r \in RandomStrings}

\* the hole a write past the end of a truncated file leaves
Nul == "nul"

\* a write of one character at a file offset
WriteAt(disk, offset, x) ==
    [j \in 1..Max(Len(disk), offset + 1) |->
        IF j = offset + 1 THEN x
        ELSE IF j <= Len(disk) THEN disk[j] ELSE Nul]

NumberedAttempt ==
    [pc |-> "numbered", attempt_num |-> 1, retry |-> 0,
     stream_file |-> StreamFile(0, ""), final_content |-> <<>>, nread |-> 0]

InitTranscript ==
    /\ FanoutIdle
    /\ parsed = <<>>
    /\ raw = <<>>
    /\ usage = NoUsage
    /\ attempt_counter = [c \in Callers |-> 1]
    /\ attempts = [c \in Callers |-> NumberedAttempt]
    /\ stream_outputs = [f \in TranscriptFiles |-> <<>>]
    /\ stream_call = <<>>

\* stream_file is named; the request is made; final_content = "";
\* open(stream_file, "w") creates or truncates the file
OpenTranscript(c) ==
    /\ attempts[c].pc = "numbered"
    /\ \E r \in RandomStrings :
         LET f == StreamFile(attempts[c].attempt_num, r)
         IN  /\ attempts' = [attempts EXCEPT ![c].pc = "streaming",
                                             ![c].stream_file = f,
                                             ![c].final_content = <<>>,
                                             ![c].nread = 0]
             /\ stream_outputs' = [stream_outputs EXCEPT ![f] = <<>>]
    /\ UNCHANGED <<fanout_vars, raw, usage, attempt_counter, stream_call,
                   parsed>>

\* a chunk arrives; a non-empty delta is written at the writer's offset,
\* flushed, and appended to final_content before the next chunk is awaited
TranscriptChunk(c) ==
    /\ attempts[c].pc = "streaming"
    /\ attempts[c].nread < MaxDeltas
    /\ \E x \in TranscriptFragments(c) :
         IF x = ""
         THEN /\ attempts' = [attempts EXCEPT ![c].nread = @ + 1]
              /\ UNCHANGED stream_outputs
         ELSE /\ attempts' = [attempts EXCEPT
                                ![c].nread = @ + 1,
                                ![c].final_content = Append(@, x)]
              /\ stream_outputs' =
                   [stream_outputs EXCEPT ![attempts[c].stream_file] =
                       WriteAt(@, Len(attempts[c].final_content), x)]
    /\ UNCHANGED <<fanout_vars, raw, usage, attempt_counter, stream_call,
                   parsed>>

\* the stream ends and the file is closed: the text is returned, or the
\* ValueError for an empty text is raised (lines 1015-1019)
TranscriptEnds(c) ==
    /\ attempts[c].pc = "streaming"
    /\ attempts' = [attempts EXCEPT ![c].pc =
                        IF attempts[c].final_content = <<>> THEN "raised"
                        ELSE "done"]
    /\ UNCHANGED <<fanout_vars, raw, usage, attempt_counter, stream_outputs,
                   stream_call, parsed>>

\* the stream breaks with a retryable error; the file is closed and
\* get_message_with_retry calls get_next_message again after its sleep
TranscriptRetried(c) ==
    /\ attempts[c].pc = "streaming"
    /\ attempts[1].retry + attempts[2].retry < MaxStreamRetries
    /\ attempts' = [attempts EXCEPT ![c].pc = "numbered", ![c].retry = @ + 1]
    /\ UNCHANGED <<fanout_vars, raw, usage, attempt_counter, stream_outputs,
                   stream_call, parsed>>

NextTranscript ==
    \E c \in Callers :
        \/ OpenTranscript(c)
        \/ TranscriptChunk(c)
        \/ TranscriptEnds(c)
        \/ TranscriptRetried(c)

SpecTranscript == InitTranscript /\ [][NextTranscript]_vars

\* ----------------------------------------------------- parse_python_backticks
\* SpecParse: one call of parse_python_backticks (lines 1117-1155). A text is
\* a sequence of atoms: the fence "~~~python", the fence "~~~", one backtick
\* "~" (the tilde is written for the backtick, which a TLA+ string cannot
\* hold), newline, tab, the marker "def transform(", the tag "</reasoning>",
\* and "x" for any other character; "    " is what clean_code puts for a tab
\* and "noop_code" stands for the whole stub of lines 1117-1120.
noop_code == <<"noop_code">>

\* what the texts are put together from: an opening fence line, a closing
\* fence, a line that starts with one backtick, and single atoms
ParsePieces ==
    {<<"~~~python", "\n">>, <<"\n", "~~~">>, <<"\n", "~">>,
     <<"def transform(">>, <<"</reasoning>">>, <<"x">>, <<"\t">>}

RECURSIVE Flatten(_)
Flatten(pieces) ==
    IF pieces = <<>> THEN <<>> ELSE Head(pieces) \o Flatten(Tail(pieces))

ParseTexts == {Flatten(ps) : ps \in SeqsUpTo(ParsePieces, MaxPieces)}

Str(text) == [tag |-> "str", value |-> text]
AssertionError == [tag |-> "raise", value |-> <<>>]

\* s.replace("\t", " " * 4)
clean_code(text) ==
    [k \in 1..Len(text) |-> IF text[k] = "\t" THEN "    " ELSE text[k]]

\* s.count("~~~python")
count_fences(text) == Cardinality({k \in 1..Len(text) : text[k] = "~~~python"})

\* s.rpartition(sep)[2] in the place of s.partition(sep)[2]
partition_after_last(text, sep) ==
    LET at == {k \in 1..Len(text) : text[k] = sep}
    IN  IF at = {} THEN <<>>
        ELSE SubSeq(text, (CHOOSE k \in at : \A j \in at : k >= j) + 1,
                    Len(text))

\* s.partition(sep)[2]: what follows the first sep, "" without one
partition_after(text, sep) ==
    LET at == {k \in 1..Len(text) : text[k] = sep}
    IN  IF at = {} THEN <<>>
        ELSE SubSeq(text, (CHOOSE k \in at : \A j \in at : k <= j) + 1,
                    Len(text))

RECURSIVE split_fences(_)
\* s.split("~~~python")
split_fences(text) ==
    LET at == {k \in 1..Len(text) : text[k] = "~~~python"}
    IN  IF at = {} THEN <<text>>
        ELSE LET k == CHOOSE x \in at : \A j \in at : x <= j
             IN  <<SubSeq(text, 1, k - 1)>>
                 \o split_fences(SubSeq(text, k + 1, Len(text)))

RECURSIVE Backticks(_, _)
\* how many backticks the text has in a row from position k on
Backticks(text, k) ==
    IF k > Len(text) THEN 0
    ELSE IF text[k] = "~" THEN 1 + Backticks(text, k + 1)
    ELSE IF text[k] = "~~~" THEN 3 + Backticks(text, k + 1)
    ELSE IF text[k] = "~~~python" THEN 3
    ELSE 0

\* re.search(r"~~~python\n(.*)\n" + ticks * "~", s, re.DOTALL): the match
\* starts at the leftmost fence that is followed by a newline and has a
\* closing newline-and-backticks after it, and the greedy group runs to the
\* last such closing; <<>> when nothing matches, else <<group(1)>>
re_search(text, ticks) ==
    LET ends(i) == {j \in (i + 2)..Len(text) :
                       text[j] = "\n" /\ Backticks(text, j + 1) >= ticks}
        starts == {i \in 1..(Len(text) - 1) :
                       /\ text[i] = "~~~python"
                       /\ text[i + 1] = "\n"
                       /\ ends(i) # {}}
    IN  IF starts = {} THEN <<>>
        ELSE LET i == CHOOSE x \in starts : \A y \in starts : x <= y
                 j == CHOOSE x \in ends(i) : \A y \in ends(i) : x >= y
             IN  <<SubSeq(text, i + 2, j - 1)>>

\* lines 1135-1140: with several fences, s becomes the fence plus the last
\* chunk of the split that contains the marker; s stays when none does
last_transform_chunk(text) ==
    LET chunks == split_fences(text)
        with == {k \in 1..Len(chunks) :
                    \E j \in 1..Len(chunks[k]) : chunks[k][j] = "def transform("}
    IN  IF count_fences(text) > 1 /\ with # {}
        THEN <<"~~~python">>
             \o chunks[CHOOSE k \in with : \A j \in with : k >= j]
        ELSE text

parse_python_backticks(s0) ==
    IF count_fences(s0) = 0
    THEN IF partition_after(s0, "</reasoning>") = <<>> THEN Str(noop_code)
         ELSE Str(clean_code(partition_after(s0, "</reasoning>")))
    ELSE LET s == last_transform_chunk(s0)
         IN  IF count_fences(s) # 1 THEN AssertionError
             ELSE IF re_search(s, 3) # <<>>
             THEN Str(clean_code(re_search(s, 3)[1]))
             ELSE IF re_search(s, 1) # <<>>
             THEN Str(clean_code(re_search(s, 1)[1]))
             ELSE Str(clean_code(partition_after(s, "~~~python")))

InitParse ==
    /\ FanoutIdle
    /\ raw = <<>>
    /\ usage = NoUsage
    /\ attempt_counter = <<>>
    /\ attempts = <<>>
    /\ stream_outputs = <<>>
    /\ stream_call = <<>>
    /\ \E s \in ParseTexts : parsed = [s |-> s, pc |-> "called", out |-> Str(<<>>)]

ParsePythonBackticks ==
    /\ parsed.pc = "called"
    /\ parsed' = [parsed EXCEPT !.pc = "returned",
                                !.out = parse_python_backticks(parsed.s)]
    /\ UNCHANGED <<fanout_vars, raw, usage, attempt_counter, attempts,
                   stream_outputs, stream_call>>

NextParse == ParsePythonBackticks

SpecParse == InitParse /\ [][NextParse]_vars

\* ------------------------------------------------- parse_2d_arrays_from_string
\* SpecGrids: one call of parse_2d_arrays_from_string (lines 1158-1178). A
\* text is a sequence of characters: brackets, comma, blank, the digits
\* "1".."5", and the letters "a" and "x".
Digits == {"1", "2", "3", "4", "5"}
DigitValue(d) ==
    CASE d = "1" -> 1 [] d = "2" -> 2 [] d = "3" -> 3 [] d = "4" -> 4
      [] d = "5" -> 5

\* the rows written in the texts: their characters between the brackets
RowKinds ==
    {<<"1", ",", "2">>, <<"3", ",", "4">>, <<"5">>, <<" ", "5", ",">>,
     <<"1", ",", "a">>}

RECURSIVE GridText(_)
\* rows as they stand in a grid literal: [r1], [r2]
GridText(rows) ==
    <<"[">> \o Head(rows) \o <<"]">>
    \o (IF Len(rows) = 1 THEN <<>> ELSE <<",", " ">> \o GridText(Tail(rows)))

\* the items of a text: a grid literal, or a character outside any grid
GridItems ==
    {[grid |-> TRUE, rows |-> rows,
      text |-> <<"[">> \o GridText(rows) \o <<"]">>] :
        rows \in SeqsUpTo(RowKinds, MaxRows) \ {<<>>}}
    \cup {[grid |-> FALSE, rows |-> <<>>, text |-> <<c>>] :
             c \in {"x", ",", "[", "]"}}

RECURSIVE ItemsText(_)
ItemsText(items) ==
    IF items = <<>> THEN <<>> ELSE Head(items).text \o ItemsText(Tail(items))

RECURSIVE SkipBlanks(_, _)
\* \s*: the first position from k on that holds no blank
SkipBlanks(text, k) ==
    IF k <= Len(text) /\ text[k] = " " THEN SkipBlanks(text, k + 1) ELSE k

\* \[[^\[\]]*\] at position k: the position of its closing bracket, 0 when
\* no row starts at k
RowEnd(text, k) ==
    IF k > Len(text) \/ text[k] # "[" THEN 0
    ELSE LET stops == {j \in (k + 1)..Len(text) : text[j] \in {"[", "]"}}
         IN  IF stops = {} THEN 0
             ELSE LET j == CHOOSE x \in stops : \A y \in stops : x <= y
                  IN  IF text[j] = "]" THEN j ELSE 0

RECURSIVE LastRowEnd(_, _)
\* (?:,\s*\[[^\[\]]*\])*, greedy, after a row that ends at position e
LastRowEnd(text, e) ==
    IF e < Len(text) /\ text[e + 1] = ","
       /\ RowEnd(text, SkipBlanks(text, e + 2)) # 0
    THEN LastRowEnd(text, RowEnd(text, SkipBlanks(text, e + 2)))
    ELSE e

\* the pattern of line 1160 matched at position p: <<its first row's
\* position, its last row's end, the position of its closing bracket>>, or
\* <<>> without a match
GridMatch(text, p) ==
    IF text[p] # "[" \/ RowEnd(text, SkipBlanks(text, p + 1)) = 0 THEN <<>>
    ELSE LET q == SkipBlanks(text, p + 1)
             e == LastRowEnd(text, RowEnd(text, q))
             c == SkipBlanks(text, e + 1)
         IN  IF c <= Len(text) /\ text[c] = "]" THEN <<q, e, c>> ELSE <<>>

RECURSIVE findall_grids(_, _)
\* re.findall(pattern, s): group 1 of the matches from position p on, left
\* to right and not overlapping
findall_grids(text, p) ==
    IF p > Len(text) THEN <<>>
    ELSE IF GridMatch(text, p) = <<>> THEN findall_grids(text, p + 1)
    ELSE <<SubSeq(text, GridMatch(text, p)[1], GridMatch(text, p)[3] - 1)>>
         \o findall_grids(text, GridMatch(text, p)[3] + 1)

RECURSIVE findall_rows(_, _)
\* re.findall(r"\[([^\]]*)\]", match): what stands in each pair of brackets
findall_rows(text, p) ==
    IF p > Len(text) THEN <<>>
    ELSE LET closes == {j \in (p + 1)..Len(text) : text[j] = "]"}
         IN  IF text[p] # "[" \/ closes = {} THEN findall_rows(text, p + 1)
             ELSE LET j == CHOOSE x \in closes : \A y \in closes : x <= y
                  IN  <<SubSeq(text, p + 1, j - 1)>>
                      \o findall_rows(text, j + 1)

RECURSIVE split_commas(_)
\* row.split(",")
split_commas(row) ==
    LET at == {k \in 1..Len(row) : row[k] = ","}
    IN  IF at = {} THEN <<row>>
        ELSE LET k == CHOOSE x \in at : \A y \in at : x <= y
             IN  <<SubSeq(row, 1, k - 1)>>
                 \o split_commas(SubSeq(row, k + 1, Len(row)))

RECURSIVE int(_)
\* int(n) of a stripped, non-empty n: its value, -1 for the ValueError
int(n) ==
    IF n[Len(n)] \notin Digits THEN -1
    ELSE IF Len(n) = 1 THEN DigitValue(n[1])
    ELSE LET high == int(SubSeq(n, 1, Len(n) - 1))
         IN  IF high = -1 THEN -1 ELSE 10 * high + DigitValue(n[Len(n)])

\* the cells of a row that are kept: [... for n in row.split(",") if n.strip()]
row_cells(row) ==
    SelectSeq([k \in 1..Len(split_commas(row)) |-> strip(split_commas(row)[k])],
              LAMBDA n : n # <<>>)

\* the list comprehension of line 1174 with the cells that are no numbers
\* left out
row_nums_lenient(row) ==
    LET cells == SelectSeq(row_cells(row), LAMBDA n : int(n) # -1)
    IN  [k \in 1..Len(cells) |-> int(cells[k])]

\* nums = [int(n.strip()) for n in row.split(",") if n.strip()]: <<nums>>, or
\* <<>> when an int() raised
row_nums(row) ==
    LET cells == row_cells(row)
    IN  IF \E k \in 1..Len(cells) : int(cells[k]) = -1 THEN <<>>
        ELSE <<[k \in 1..Len(cells) |-> int(cells[k])]>>

ValueError == [tag |-> "raise", value |-> <<>>]

parse_2d_arrays_from_string(s) ==
    LET matches == findall_grids(s, 1)
        rows(m) == findall_rows(matches[m], 1)
    IN  IF \E m \in 1..Len(matches) : \E r \in 1..Len(rows(m)) :
              row_nums(rows(m)[r]) = <<>>
        THEN ValueError
        ELSE [tag |-> "list",
              value |-> [m \in 1..Len(matches) |->
                           [r \in 1..Len(rows(m)) |-> row_nums(rows(m)[r])[1]]]]

InitGrids ==
    /\ FanoutIdle
    /\ raw = <<>>
    /\ usage = NoUsage
    /\ attempt_counter = <<>>
    /\ attempts = <<>>
    /\ stream_outputs = <<>>
    /\ stream_call = <<>>
    /\ \E items \in SeqsUpTo(GridItems, MaxItems) :
         parsed = [items |-> items, s |-> ItemsText(items), pc |-> "called",
                   out |-> [tag |-> "list", value |-> <<>>]]

Parse2dArrays ==
    /\ parsed.pc = "called"
    /\ parsed' = [parsed EXCEPT !.pc = "returned",
                                !.out = parse_2d_arrays_from_string(parsed.s)]
    /\ UNCHANGED <<fanout_vars, raw, usage, attempt_counter, attempts,
                   stream_outputs, stream_call>>

NextGrids == Parse2dArrays

SpecGrids == InitGrids /\ [][NextGrids]_vars

\* ------------------------------------------------------------------ claims
Born(i) == tasks[i].pc # "unborn"
Results == [i \in 1..Max(n_times, 0) |-> tasks[i].res]

RECURSIVE AllParts(_)
AllParts(msgs) ==
    IF msgs = <<>> THEN <<>> ELSE Head(msgs).parts \o AllParts(Tail(msgs))

HintCount(msgs) ==
    Cardinality({i \in 1..Len(AllParts(msgs)) : AllParts(msgs)[i].cache_control})

LastPartHinted(msgs) ==
    /\ msgs # <<>>
    /\ msgs[Len(msgs)].parts # <<>>
    /\ msgs[Len(msgs)].parts[Len(msgs[Len(msgs)].parts)].cache_control

\* C1 (as claimed): get_next_messages never raises because an attempt
\* failed; a failed attempt is only absent from the returned list.
C1_NeverRaisesForAttempt ==
    ~(pc = "raised"
      /\ \E i \in TaskIds : tasks[i].calls >= 1 /\ tasks[i].res = Raised)

RetryControllers == {"anthropic", "deepseek", "openai", "xai", "gemini"}
AlwaysFailing == {"rate_limited", "unavailable"}

\* C2 (as claimed): under a provider that answers every call with a
\* rate-limit or other retryable error, a controller with maximum M has made
\* exactly M provider calls when it yields the absent result.
C2_ExactlyMaxRetriesCalls ==
    (provider \in AlwaysFailing /\ tasks[1].ctl \in RetryControllers
     /\ tasks[1].pc = "done")
    => tasks[1].calls = tasks[1].max_retries /\ tasks[1].res = NoneResult

\* C2 (amended): under such a provider a controller with maximum M never
\* makes more than max(1, M) provider calls, and when it ends it has made
\* exactly max(1, M) calls and yields the absent result.
C2_ExactlyMaxOneOrMaxRetriesCalls ==
    (provider \in AlwaysFailing /\ tasks[1].ctl \in RetryControllers)
    => /\ tasks[1].calls <= Max(1, tasks[1].max_retries)
       /\ tasks[1].pc = "done"
          => /\ tasks[1].calls = Max(1, tasks[1].max_retries)
             /\ tasks[1].res = NoneResult

\* C2 witness: the Anthropic controller has given up after its 200th call.
C2_AnthropicExhausted ==
    /\ provider = "rate_limited"
    /\ tasks[1].ctl = "anthropic"
    /\ tasks[1].pc = "done"
    /\ tasks[1].calls = anthropic_max_retries
    /\ tasks[1].res = NoneResult

\* C3 (as claimed): when the provider rejects the credential, every attempt
\* makes exactly one provider call, never waits, and yields the absent result.
C3_AuthFailureOneCallAbsent ==
    provider = "auth_invalid"
    => \A i \in TaskIds :
         tasks[i].calls >= 1
         => /\ tasks[i].calls = 1
            /\ tasks[i].waits = 0
            /\ tasks[i].pc = "done" => tasks[i].res = NoneResult

\* C4 (as claimed): get_next_messages returns a list of length <= n holding
\* exactly the pairs of the attempts that succeeded, in every branch.
C4_ReturnsListOfSuccesses ==
    pc = "returned"
    => /\ ret.kind = "list"
       /\ Len(ret.items) <= Max(n_times, 0)
       /\ ret.items = FilterNones(Results)

\* C5: with n_times <= 0 get_next_messages returns the empty list and has
\* built no client, translated or changed no message and issued no attempt,
\* whatever the model.
C5_NothingDoneForZero ==
    (pc # "idle" /\ n_times <= 0)
    => /\ pc = "returned"
       /\ ret = ListRet(<<>>)
       /\ client = "none"
       /\ messages = messages0
       /\ sent = [system |-> <<>>, messages |-> <<>>]
       /\ \A i \in TaskIds : tasks[i] = Unborn

\* C5 witness: a call with n_times = 0 for a model without a branch returned.
C5_ZeroReturnedForUnsupported ==
    pc = "returned" /\ n_times = 0 /\ model \in UnsupportedModels

\* C6 (as claimed): when get_next_messages has returned, the caller's
\* conversation is what it was before the call.
C6_ConversationUnchanged == pc = "returned" => messages = messages0

C8_AllAttemptsSettled ==
    pc \in {"returned", "raised"}
    => \A i \in TaskIds : tasks[i].pc \in {"unborn", "done"}

\* C9 (as claimed): in the Anthropic, OpenAI and DeepSeek R1 branches a
\* first attempt that succeeded is the first element of the returned list.
C9_PrimaryInFirstSlot ==
    (pc = "returned" /\ n_times >= 1
     /\ model \in AnthropicModels \cup OpenAIModels \cup {"deep_seek_r1"}
     /\ tasks[1].res.tag = "pair")
    => /\ ret.kind = "list"
       /\ ret.items # <<>>
       /\ Head(ret.items) = tasks[1].res

StreamsFor(m) ==
    IF m \in AnthropicModels \cup OpenAIModels \cup XaiModels
    THEN STREAM_LLM /\ n_times = 1
    ELSE IF m = "baseten_deepseek_r1" THEN TRUE
    ELSE IF m = "openrouter_model" THEN STREAM_LLM
    ELSE FALSE

C11_NoWifiNoProviderCall ==
    NO_WIFI
    => /\ \A i \in TaskIds : tasks[i].calls = 0
       /\ (pc = "returned" /\ n_times >= 1)
          => /\ ret.kind = "list"
             /\ Len(ret.items) = n_times
             /\ \A k \in 1..Len(ret.items) : ret.items[k] = Canned

\* C12 (as claimed): an attempt that got an OpenRouter response without
\* choices has written the diagnostic file, has made exactly one provider
\* call and has ended by raising.
C12_NoChoicesFatal ==
    \A i \in TaskIds :
        tasks[i].dumps >= 1
        => /\ tasks[i].calls = 1
           /\ tasks[i].pc = "done"
           /\ tasks[i].res = Raised

\* C12 (amended): every response without choices is written to the
\* diagnostic file and raised by get_next_message, and the fan-out wrapper
\* get_message_with_retry handles it like a rate limit: it waits and calls
\* again while fewer than 5 calls were made, and re-raises after the 5th.
C12_NoChoicesRetriedByWrapper ==
    [][(tasks[1].ctl = "openrouter" /\ tasks'[1].dumps = tasks[1].dumps + 1)
       => /\ tasks[1].pc = "inflight"
          /\ tasks[1].calls = tasks[1].retry_count + 1
          /\ IF tasks[1].calls < openrouter_max_retries
             THEN /\ tasks'[1].pc = "sleep"
                  /\ tasks'[1].retry_count = tasks[1].retry_count + 1
                  /\ tasks'[1].waits = tasks[1].waits + 1
             ELSE /\ tasks'[1].pc = "done"
                  /\ tasks'[1].res = Raised
                  /\ tasks'[1].calls = openrouter_max_retries]_vars

\* C12 witness: five calls of one attempt were all answered without choices;
\* each was dumped and the attempt raised after the fifth.
C12_FiveDumpsThenRaised ==
    /\ tasks[1].ctl = "openrouter"
    /\ tasks[1].dumps = openrouter_max_retries
    /\ tasks[1].calls = openrouter_max_retries
    /\ tasks[1].res = Raised

\* the calls get_next_message makes at most for a model when every call is
\* rate-limited: the Anthropic branch loops, the other branches call once
LegacyCallBound(m) == IF m \in AnthropicModels THEN legacy_max_retries ELSE 1

\* C13: under a provider that rate-limits every call, get_next_message makes
\* at most its bound of calls (12 on the Anthropic branch) with one wait
\* between consecutive calls, and when it ends it has made exactly that many
\* calls and raises the error; it never returns an absent result.
C13_LegacyRaisesAfterBound ==
    (provider = "rate_limited" /\ pc \in {"legacy", "returned", "raised"}
     /\ tasks[1].calls >= 1)
    => /\ tasks[1].calls <= LegacyCallBound(model)
       /\ tasks[1].waits =
            IF tasks[1].pc = "sleep" THEN tasks[1].calls ELSE tasks[1].calls - 1
       /\ pc # "returned"
       /\ tasks[1].res # NoneResult
       /\ tasks[1].pc = "done"
          => /\ pc = "raised"
             /\ ret = RaiseRet
             /\ tasks[1].res = Raised
             /\ tasks[1].calls = LegacyCallBound(model)

\* C13 witness: the Anthropic branch raised after its 12th rate-limited call,
\* having waited 11 times.
C13_AnthropicLegacyRaised ==
    /\ provider = "rate_limited"
    /\ model = "claude_3_5_sonnet"
    /\ pc = "raised"
    /\ tasks[1].calls = legacy_max_retries
    /\ tasks[1].waits = legacy_max_retries - 1
    /\ tasks[1].res = Raised

\* the prompt-token counts a context-length error may report: those the
\* provider of the specifications reports, and the edges of the two tests
ReportedPromptTokens ==
    PromptTokenCases
    \cup {0, MAX_CONTEXT_LENGTH - deepseek_max_tokens - 1,
          MAX_CONTEXT_LENGTH - deepseek_max_tokens,
          MAX_CONTEXT_LENGTH - deepseek_max_tokens + 1,
          MAX_CONTEXT_LENGTH - 1, MAX_CONTEXT_LENGTH + 1}

\* C14: whenever a get_next_message_deepseek call is in flight and fails with
\* a context-length error reporting p prompt tokens: if 65536 - p <= 0 the
\* controller returns None at once, with no wait and no retry counted;
\* otherwise max_tokens becomes min(8192, 65536 - p), which is in 1..8192,
\* and the controller goes on with it unless its retries are used up.
C14_ContextLengthBudget ==
    (tasks[1].ctl = "deepseek" /\ tasks[1].pc = "inflight")
    => \A p \in ReportedPromptTokens :
         LET t == tasks[1]
             t2 == get_next_message_deepseek(1, t, Outcome("context_length", p))
         IN  IF MAX_CONTEXT_LENGTH - p <= 0
             THEN /\ t2.pc = "done"
                  /\ t2.res = NoneResult
                  /\ t2.waits = t.waits
                  /\ t2.retry_count = t.retry_count
                  /\ t2.calls = t.calls
             ELSE /\ t2.max_tokens = Min(8192, MAX_CONTEXT_LENGTH - p)
                  /\ t2.max_tokens \in 1..8192
                  /\ \/ t2.pc = "sleep" /\ t2.waits = t.waits + 1
                     \/ /\ t2.pc = "done"
                        /\ t2.res = NoneResult
                        /\ t2.retry_count >= t2.max_retries

\* C14 witness: a Baseten DeepSeek call is in flight with the budget 5536
\* that the context-length error of an earlier call (60000 prompt tokens)
\* left behind.
C14_CallWithShrunkBudget ==
    /\ tasks[1].ctl = "deepseek"
    /\ tasks[1].model = "baseten_deepseek_r1"
    /\ tasks[1].pc = "inflight"
    /\ tasks[1].calls = 2
    /\ tasks[1].max_tokens = MAX_CONTEXT_LENGTH - 60000

\* the max_tokens a get_next_message_deepseek call starts with
InitialMaxTokens(m) ==
    IF m = "baseten_deepseek_r1" THEN baseten_max_tokens ELSE deepseek_max_tokens

\* C15 (as claimed): once get_next_message_deepseek has changed its budget,
\* no later failure of the call changes the budget again or ends the call
\* without a retry being counted.
C15_ShrinkAtMostOnce ==
    [][(tasks[1].ctl = "deepseek"
        /\ tasks[1].max_tokens # InitialMaxTokens(tasks[1].model))
       => /\ tasks'[1].max_tokens = tasks[1].max_tokens
          /\ (tasks[1].pc = "inflight" /\ tasks'[1].res = NoneResult)
             => tasks'[1].retry_count = tasks[1].retry_count + 1]_vars

\* C16: whenever a path builds a usage from a response with raw prompt-token
\* count P and cached-token count C, it has cache_read_input_tokens = C and
\* input_tokens = P - C, so the two add up to P; streamed or not.
C16_InputIsPromptMinusCached ==
    (usage.tag = "usage" /\ raw.cached.kind = "int")
    => /\ usage.cache_read_input_tokens = raw.cached.n
       /\ usage.input_tokens = raw.prompt_tokens - raw.cached.n
       /\ usage.input_tokens + usage.cache_read_input_tokens = raw.prompt_tokens
       /\ usage.cache_creation_input_tokens = 0
       /\ usage.output_tokens = raw.completion_tokens

\* C16 witness: the Gemini fan-out path built (0, 40, 60, 7) from P = 100,
\* C = 40.
C16_HundredFortyGivesSixty ==
    /\ raw.path = "gemini"
    /\ raw.prompt_tokens = 100
    /\ raw.cached = CachedInt(40)
    /\ usage = ModelUsage(0, 40, 60, raw.completion_tokens)

\* C17 (as claimed): every usage a path builds consists of four
\* non-negative integers.
C17_UsageNonNegative ==
    usage.tag = "usage"
    => /\ usage.cache_creation_input_tokens >= 0
       /\ usage.cache_read_input_tokens >= 0
       /\ usage.input_tokens >= 0
       /\ usage.output_tokens >= 0

\* C18 (as claimed): no two attempts, of the same get_next_messages call or
\* of two calls running concurrently, have the same attempt number.
C18_AttemptNumbersUnique ==
    \A c1, c2 \in Callers : \A k1, k2 \in TaskIds :
        (<<c1, k1>> # <<c2, k2>> /\ attempts[c1][k1].attempt_num # 0)
        => attempts[c1][k1].attempt_num # attempts[c2][k2].attempt_num

\* C19 (as claimed): no transcript file name is opened for writing by more
\* than one streamed attempt, retries and concurrent calls included.
C19_TranscriptNamesUnique ==
    \A f \in StreamFiles : stream_outputs[f] <= 1

RECURSIVE Deltas(_)
\* the non-empty text deltas of a chunk sequence, in the order emitted
Deltas(chunks) ==
    IF chunks = <<>> THEN <<>>
    ELSE (IF Head(chunks).content # "" THEN <<Head(chunks).content>> ELSE <<>>)
         \o Deltas(Tail(chunks))

RECURSIVE LastUsage(_)
\* the usage of the last usage-bearing chunk, None when no chunk bears one
LastUsage(chunks) ==
    IF chunks = <<>> THEN NoUsage
    ELSE IF chunks[Len(chunks)].usage # NoUsage THEN chunks[Len(chunks)].usage
    ELSE LastUsage(SubSeq(chunks, 1, Len(chunks) - 1))

\* C20 (as claimed): on every streaming path the text returned is the
\* concatenation of the non-empty deltas of the stream that ended, in order,
\* and the usage is that of its last usage-bearing chunk; nothing of a
\* failed try is in it.
C20_TextIsConcatenation ==
    stream_call.pc = "returned"
    => /\ stream_call.text = Deltas(stream_call.chunks)
       /\ LastUsage(stream_call.chunks) # NoUsage
          => stream_call.usage = LastUsage(stream_call.chunks)

\* C20 (amended): the text returned is the concatenation of the non-empty
\* deltas of the stream that ended, in order, except that the DeepSeek path
\* returns that concatenation with its <think>...</think> regions removed
\* and stripped of surrounding whitespace; the usage is that of the last
\* usage-bearing chunk (None without one), on the Anthropic path that of
\* the final message; nothing of a failed try is in either; and while the
\* stream is read the accumulators hold exactly what was read so far.
C20_TextIsConcatenationButThinking ==
    LET read == SubSeq(stream_call.chunks, 1, stream_call.pos)
    IN  /\ stream_call.pc = "reading"
           => /\ stream_call.final_content = Deltas(read)
              /\ stream_call.usage =
                   IF stream_call.path = "anthropic" THEN NoUsage
                   ELSE LastUsage(read)
        /\ stream_call.pc = "returned"
           => /\ stream_call.text =
                   IF stream_call.path = "deepseek"
                   THEN strip(remove_thinking(Deltas(stream_call.chunks)))
                   ELSE Deltas(stream_call.chunks)
              /\ stream_call.usage =
                   IF stream_call.path = "anthropic"
                   THEN stream_call.final_usage
                   ELSE LastUsage(stream_call.chunks)

\* C20 witness: a DeepSeek stream that failed once was read again to its
\* end; it held a thinking region, which is not in the text returned.
C20_ThinkingStrippedAfterRetry ==
    /\ stream_call.path = "deepseek"
    /\ stream_call.pc = "returned"
    /\ stream_call.tries = 1
    /\ Deltas(stream_call.chunks) = <<"<think>", "a", "</think>">>
    /\ stream_call.text = <<>>

\* C21: on the streaming OpenRouter path, while an attempt streams, the
\* contents of its transcript file equal the text it has accumulated so far.
C21_TranscriptEqualsAccumulated ==
    \A c \in Callers :
        attempts[c].pc = "streaming"
        => stream_outputs[attempts[c].stream_file] = attempts[c].final_content

\* the body of a fenced region, given the text that follows its opening
\* fence: what lies between the newline that ends the fence line and the
\* region's closing fence, the first newline followed by three backticks;
\* <<>> when the region is not of that form, else a one-element sequence
RegionBody(chunk) ==
    LET closes == {j \in 2..Len(chunk) :
                      chunk[j] = "\n" /\ Backticks(chunk, j + 1) >= 3}
    IN  IF chunk = <<>> \/ chunk[1] # "\n" \/ closes = {} THEN <<>>
        ELSE <<SubSeq(chunk, 2,
                      (CHOOSE j \in closes : \A k \in closes : j <= k) - 1)>>

\* the fenced regions of a text: what follows each opening fence
Regions(text) == Tail(split_fences(text))

HasMarker(chunk) == \E j \in 1..Len(chunk) : chunk[j] = "def transform("

\* C22: on a text with several fenced python regions the parser returns
\* the body of the last region that contains 'def transform(' and, when no
\* region contains it, returns what follows the first fence marker; it does
\* not fail.
C22_LastRegionWithMarkerElseRemainder ==
    (parsed.pc = "returned" /\ count_fences(parsed.s) > 1)
    => LET regions == Regions(parsed.s)
           with == {k \in 1..Len(regions) : HasMarker(regions[k])}
           last == CHOOSE k \in with : \A j \in with : k >= j
       IN  /\ parsed.out.tag = "str"
           /\ with = {} /\ ~HasMarker(split_fences(parsed.s)[1])
              => parsed.out.value =
                   clean_code(partition_after(parsed.s, "~~~python"))
           /\ with # {} /\ RegionBody(regions[last]) # <<>>
              => parsed.out.value = clean_code(RegionBody(regions[last])[1])

\* C23: on a text with exactly one fenced region the parser returns that
\* region's body with each tab replaced by four spaces, whatever follows
\* the region; and no result of the parser contains a tab.
C23_OneRegionBodyReturned ==
    parsed.pc = "returned"
    => /\ parsed.out.tag = "str"
          => \A k \in 1..Len(parsed.out.value) : parsed.out.value[k] # "\t"
       /\ count_fences(parsed.s) = 1 /\ RegionBody(Regions(parsed.s)[1]) # <<>>
          => parsed.out =
               Str(clean_code(RegionBody(Regions(parsed.s)[1])[1]))

\* C24: on a text without a python fence the parser returns what follows
\* the first '</reasoning>' with each tab replaced by four spaces, or the
\* stub when the tag is missing or nothing follows it; it does not raise.
C24_ReasoningFallbackOrStub ==
    (parsed.pc = "returned" /\ count_fences(parsed.s) = 0)
    => LET s == parsed.s
           at == {k \in 1..Len(s) : s[k] = "</reasoning>"}
           first == CHOOSE k \in at : \A j \in at : k <= j
       IN  /\ parsed.out.tag = "str"
           /\ parsed.out.value =
                IF at = {} \/ first = Len(s) THEN <<"noop_code">>
                ELSE [j \in 1..(Len(s) - first) |->
                        IF s[first + j] = "\t" THEN "    " ELSE s[first + j]]

\* C24 witness: a text without fence and with two tags was parsed; what
\* follows the first tag came back, its tab as four spaces.
C24_TextAfterFirstTagReturned ==
    /\ parsed.pc = "returned"
    /\ parsed.s = <<"x", "</reasoning>", "\t", "</reasoning>">>
    /\ parsed.out = Str(<<"    ", "</reasoning>">>)

\* C25: parse_2d_arrays_from_string returns the grids written in the text
\* in their order of appearance; within a row it leaves out the empty
\* items of trailing commas and the tokens that are no numbers, and does
\* not fail.
C25_GridsInOrderLenient ==
    parsed.pc = "returned"
    => LET grids == SelectSeq(parsed.items, LAMBDA it : it.grid)
       IN  parsed.out =
             [tag |-> "list",
              value |-> [g \in 1..Len(grids) |->
                           [r \in 1..Len(grids[g].rows) |->
                              row_nums_lenient(grids[g].rows[r])]]]

\* C26: the text a DeepSeek call returns, streamed or not, holds no
\* <think>...</think> region: no opening tag with a closing tag after it.
C26_NoThinkingRegionReturned ==
    stream_call.pc = "returned"
    => ~\E i, j \in 1..Len(stream_call.text) :
           /\ i < j
           /\ stream_call.text[i] = "<think>"
           /\ stream_call.text[j] = "</think>"

C28_RetriesOnlyRateUpstreamNoChoices ==
    [][\A o \in Answers(tasks[1]) :
          (tasks[1].ctl = "openrouter" /\ o.kind # "ok" /\ RespondStep(1, o))
          => IF o.kind \in {"rate_limit", "upstream", "no_choices"}
             THEN \/ tasks'[1].pc = "sleep"
                  \/ tasks[1].calls = openrouter_max_retries
             ELSE /\ tasks'[1].pc = "done"
                  /\ tasks'[1].res = Raised
                  /\ tasks'[1].slept = tasks[1].slept]_vars

\* the provider calls a controller makes at most
CallBound(t) == Max(1, t.max_retries)

\* C29: every retry controller call terminates when every provider call
\* returns: the controllers and get_message_with_retry make at most
\* max(1, max_retries) provider calls and then have returned a result,
\* returned the absent result, or raised.
C29_ControllerTerminates ==
    /\ [](tasks[1].calls <= CallBound(tasks[1]))
    /\ <>(/\ tasks[1].pc = "done"
          /\ tasks[1].res.tag \in {"pair", "None", "raise"})

\* C29 witness: the DeepSeek controller ended with the absent result after
\* its 50th provider call.
C29_DeepseekEndedAfterFifty ==
    /\ tasks[1].ctl = "deepseek"
    /\ tasks[1].pc = "done"
    /\ tasks[1].res = NoneResult
    /\ tasks[1].calls = deepseek_max_retries

\* C30: in get_next_message_anthropic/deepseek/openai/xai/gemini one wait of
\* retry_secs lies between any two consecutive provider calls and none
\* follows the last call: a controller call that made k provider calls and
\* ended has performed k-1 waits, each of retry_secs.
C30_OneWaitBetweenCalls ==
    LET t == tasks[1]
    IN  t.ctl \in {"anthropic", "deepseek", "openai", "xai", "gemini"}
        => /\ t.waits = Len(t.slept)
           /\ \A k \in 1..Len(t.slept) : t.slept[k] = retry_secs
           /\ t.pc = "sleep" => t.waits = t.calls
           /\ t.pc \in {"inflight", "done"} => t.waits = t.calls - 1

\* C30 witness: the OpenAI controller returned the absent result after
\* three provider calls and two waits of 15 seconds.
C30_ThreeCallsTwoWaits ==
    /\ tasks[1].ctl = "openai"
    /\ tasks[1].pc = "done"
    /\ tasks[1].res = NoneResult
    /\ tasks[1].calls = 3
    /\ tasks[1].slept = <<15, 15>>

\* the branches whose n_messages is [await first, *await gather(others)]
PrimaryFirstModels == AnthropicModels \cup OpenAIModels \cup {"deep_seek_r1"}

\* C31: in the Anthropic, OpenAI and DeepSeek R1 branches, as long as the
\* first attempt has not settled (it is in flight or waiting to retry), no
\* other attempt has issued a provider call.
C31_SecondariesAfterPrimarySettled ==
    (model \in PrimaryFirstModels /\ tasks[1].pc # "done")
    => \A j \in TaskIds : j >= 2 => tasks[j].calls = 0

\* C31 witness: the first attempt settled only after a wait and a second
\* call, and the second attempt's first call is in flight
C31_SecondaryCallsAfterRetriedPrimary ==
    /\ model \in PrimaryFirstModels
    /\ n_times = 2
    /\ tasks[1].pc = "done"
    /\ tasks[1].waits >= 1
    /\ tasks[2].pc = "inflight"
    /\ tasks[2].calls = 1

\* C32: in the Anthropic, OpenAI and DeepSeek R1 branches, once the first
\* attempt has settled, whatever its outcome (a pair or the absent result),
\* each of the other n_times - 1 attempts has issued at least one provider
\* call.
C32_SecondariesIssuedWhateverPrimary ==
    (model \in PrimaryFirstModels /\ tasks[1].pc = "done")
    => \A j \in TaskIds : (2 <= j /\ j <= n_times) => tasks[j].calls >= 1

\* C32 witness: the first attempt gave the absent result and the second
\* attempt has made a provider call
C32_SecondaryCallsAfterAbsentPrimary ==
    /\ model \in PrimaryFirstModels
    /\ n_times = 2
    /\ tasks[1].pc = "done"
    /\ tasks[1].res = NoneResult
    /\ tasks[2].calls >= 1

\* C33 (as claimed): a streamed call that returns a (text, usage) pair
\* returns a usage record, never None, also when the stream ended without a
\* usage-bearing chunk.
C33_ReturnedUsageIsARecord ==
    stream_call.pc = "returned" => stream_call.usage # NoUsage

\* where result r stands in the returned list (0 when it is not in it)
PlaceInRet(r) ==
    IF \E k \in DOMAIN ret.items : ret.items[k] = r
    THEN CHOOSE k \in DOMAIN ret.items : ret.items[k] = r
    ELSE 0

\* C34: when get_next_messages returns a list, every attempt that succeeded
\* is in it once, and of two attempts i < j that both succeeded the result
\* of i stands before the result of j, in whatever order the two ended.
C34_ReturnedInIssueOrder ==
    (pc = "returned" /\ ret.kind = "list")
    => /\ \A i \in 1..n_times :
             tasks[i].res.tag = "pair"
             => Cardinality({k \in DOMAIN ret.items :
                               ret.items[k] = tasks[i].res}) = 1
       /\ \A i, j \in 1..n_times :
             (i < j /\ tasks[i].res.tag = "pair" /\ tasks[j].res.tag = "pair")
             => PlaceInRet(tasks[i].res) < PlaceInRet(tasks[j].res)

\* C34 witness: the second attempt of a gather ended before the first, both
\* succeeded, and the list has the first attempt's result first
C34_SecondEndedFirstStillSecond ==
    /\ pc = "returned"
    /\ n_times = 2
    /\ model \in XaiModels \cup OpenRouterModels
    /\ tasks[1].pc = "done" /\ tasks[2].pc = "done"
    /\ finished = <<2, 1>>
    /\ ret = ListRet(<<Pair(1), Pair(2)>>)

\* the models the OpenRouter branch of get_next_messages accepts (line 737)
\* and the models the Azure branch of get_next_message names (line 1041)
DispatchNamedModels ==
    {"openrouter_claude_3_5_sonnet", "openrouter_model", "openrouter_o1",
     "openrouter_o1_mini", "azure_gpt_4o", "azure_gpt_4o_mini"}

\* C35 (as claimed): get_next_message, called for a model that the
\* OpenRouter branch of get_next_messages accepts or that its own Azure
\* branch names, issues its provider call: it does not raise "Invalid
\* model" before any call.
C35_NamedModelsReachAdapter ==
    (model \in DispatchNamedModels /\ ~NO_WIFI)
    => ~(pc = "raised" /\ tasks[1].calls = 0)

\* the places of the parts of msgs that carry a cache hint
HintedParts(msgs) ==
    {i \in 1..Len(AllParts(msgs)) : AllParts(msgs)[i].cache_control}

\* C36: when get_next_messages is called a second time with the
\* conversation a first call left behind (Anthropic or OpenAI branch), the
\* second call hands the adapters the same system content and messages as
\* the first did, with the same parts hinted.
C36_TranslationIdempotent ==
    pc = "reused"
    => /\ sent = Setup(model, messages0).sent
       /\ HintedParts(sent.messages)
            = HintedParts(Setup(model, messages0).sent.messages)

\* C36 witness: a conversation with an image part and more hints than the
\* cap keeps was changed in place by the first Anthropic call and has gone
\* through the translation a second time
C36_ChangedConversationReused ==
    /\ pc = "reused"
    /\ model = "claude_3_5_sonnet"
    /\ \E i \in 1..Len(AllParts(messages0)) :
           AllParts(messages0)[i].type = "image_url"
    /\ HintCount(messages0) >= 4
    /\ messages # messages0
    /\ HintCount(sent.messages) = 3
====
